---- MODULE Spec2Model ----
(***************************************************************************)
(* Model of the trace scanners and structural comparators of               *)
(* src/text/columns (blocklist.py, block_lines.py, block_pools.py,         *)
(* pools.py).  A trace file is a sequence of lines; a line is modelled by  *)
(* the header grammar its text matches together with the text of the       *)
(* fields the regular expression of that grammar captures.  Numbers are    *)
(* integers in hundredths (99.96 is 9996).                                 *)
(***************************************************************************)
EXTENDS Integers, Sequences, FiniteSets, TLC

VARIABLES
  prog,         \* the script whose scan is running
  wantedTitle,  \* blocklist.py: the module-level wantedTitle (argv[3] or None)
  fr,           \* the locals of the running scan
  pc,           \* "scan", "returned" or "aborted" (an exception left scan)
  ret,          \* the value scan returned
  err           \* the assertion that aborted the scan

vars == <<prog, wantedTitle, fr, pc, ret, err>>

(* ------------------------------------------------------------------ *)
(* Bounds                                                             *)
(* ------------------------------------------------------------------ *)
\* longest file (in lines) a scan is fed
MaxLines == 7
\* largest declared child count / index written in a header
MaxCount == 2

(* ------------------------------------------------------------------ *)
(* Values                                                             *)
(* ------------------------------------------------------------------ *)
\* Python's None, and a local name that has not been bound yet
None == "None"
Unbound == "<unbound>"
\* the loop variable 'line' before the first line is read
NoLine == [k |-> "unread"]
NoErr == [at |-> "none", msg |-> <<>>]

\* A number of a trace is written with two decimals and is held as its
\* count of hundredths; float() of the text 'nan' is held as NaN
NaN == -1

\* the text '-' of a field of a header is held as Hyphen, which is none of
\* the numbers of the model
Hyphen == -999

\* the characters of a natural number
RECURSIVE Digits(_)
Digits(n) ==
  LET d == <<"0", "1", "2", "3", "4", "5", "6", "7", "8", "9">>[(n % 10) + 1]
  IN IF n < 10 THEN <<d>> ELSE Append(Digits(n \div 10), d)

\* the characters that a number of a trace is written with, which is what
\* a regex group holds of it: a text is the sequence of its characters
Numeral(h) ==
  IF h = NaN THEN <<"n", "a", "n">>
  ELSE Digits(h \div 100) \o <<".">> \o Digits((h % 100) \div 10)
         \o Digits(h % 10)

Titles == {"sorted", "unsorted"}

\* geometry and text of the headers a scan is fed: the scanners never
\* branch on them
Geo == [llx |-> 5400, urx |-> 9185, lly |-> 69792, ury |-> 75588]

(* ------------------------------------------------------------------ *)
(* Lines of a blocklist.py trace                                      *)
(* ------------------------------------------------------------------ *)
BlankLine == [k |-> "blank"]
\* a non-blank line that matches none of the header grammars
JunkLine == [k |-> "junk"]

\* 'showBlockList: <title> : <n>'
GrpLine(t, n) == [k |-> "grp", title |-> t, n |-> n]
\* 'block <idx>: rot=<rot> {llx urx lly ury} col=0 nCols=0 lines=<nLines>'
BlkLine(idx, nl) ==
  [k |-> "blk", idx |-> idx, rot |-> 0, llx |-> Geo.llx, urx |-> Geo.urx,
   lly |-> Geo.lly, ury |-> Geo.ury, nLines |-> nl]
\* 'line <idx>: serial=0 base=<base> {llx urx lly ury} fontsize=<fs> "<text>"'
LineLine(idx) ==
  [k |-> "line", idx |-> idx, base |-> 1814, llx |-> Geo.llx, urx |-> Geo.urx,
   lly |-> Geo.lly, ury |-> Geo.ury, fontsize |-> 900, text |-> "PIONEER"]

BL_Lines ==
  {BlankLine, JunkLine}
    \cup {GrpLine(t, n) : t \in Titles, n \in 0..MaxCount}
    \cup {BlkLine(x, n) : x \in 0..MaxCount, n \in 0..MaxCount}
    \cup {LineLine(x) : x \in 0..MaxCount}

\* reBlkList.search(line): the captured groups, or None
reBlkList(l) == IF l.k = "grp" THEN <<l.title, l.n>> ELSE None
\* blocklist reBlock.search(line)
reBlock(l) ==
  IF l.k = "blk" THEN <<l.idx, l.rot, l.llx, l.urx, l.lly, l.ury, l.nLines>>
  ELSE None
\* blocklist reLine.search(line)
reLine(l) ==
  IF l.k = "line"
  THEN <<l.idx, l.base, l.llx, l.urx, l.lly, l.ury, l.fontsize, l.text>>
  ELSE None

(* ------------------------------------------------------------------ *)
(* Outcome of running a piece of code on a frame of locals            *)
(* ------------------------------------------------------------------ *)
Ok(f) == [fr |-> f, err |-> NoErr]
\* an AssertionError raised at source line 'at' with message arguments 'msg'
Raise(f, at, msg) == [fr |-> f, err |-> [at |-> at, msg |-> msg]]
\* the assertion of a parse function, "assert m, '%d: >>>%s<<<' % (i, line)"
Fail(f, at) == Raise(f, at, <<f.i, f.line>>)
\* an assertion without a message
Bare(f, at) == Raise(f, at, <<>>)

(* ------------------------------------------------------------------ *)
(* blocklist.py                                                       *)
(* ------------------------------------------------------------------ *)
BL_parseBlock(m) ==
  [idx |-> m[1], rot |-> m[2], llx |-> m[3], urx |-> m[4], lly |-> m[5],
   ury |-> m[6], nLines |-> m[7]]

BL_parseLine(m) ==
  [idx |-> m[1], base |-> m[2], llx |-> m[3], urx |-> m[4], lly |-> m[5],
   ury |-> m[6], fontsize |-> m[7], text |-> m[8]]

\* locals of blocklist.scan before the first line is read
BL_Frame ==
  [i |-> 0, line |-> NoLine, blocksList |-> <<>>, blocks |-> <<>>,
   lines |-> <<>>, header |-> None, state |-> 0, nBlocks |-> 0,
   title |-> Unbound, titleLine |-> Unbound, blk |-> Unbound,
   nLines |-> Unbound]

\* BL_State0 with the 'assert m' of the parse functions applied to the group
\* header as well
BL_State0_Strict(f, wanted) ==
  LET m == reBlkList(f.line) IN
  IF m = None THEN Fail(f, "blocklist.py:69")
  ELSE LET f1 == [f EXCEPT !.titleLine = f.line, !.title = m[1]] IN
       IF wanted # None /\ f1.title # wanted
       THEN Bare(f1, "blocklist.py:75")
       ELSE Ok([f1 EXCEPT !.nBlocks = m[2], !.blocks = <<>>, !.state = 1,
                          !.header = f.line])

\* state 0: waiting for a 'showBlockList' header
BL_State0(f, wanted) ==
  LET m == reBlkList(f.line) IN
  IF m = None THEN Ok(f)
  ELSE LET f1 == [f EXCEPT !.titleLine = f.line, !.title = m[1]] IN
       IF wanted # None /\ f1.title # wanted
       THEN Bare(f1, "blocklist.py:75")
       ELSE Ok([f1 EXCEPT !.nBlocks = m[2], !.blocks = <<>>, !.state = 1,
                          !.header = f.line])

\* BL_State1 without 'assert idx == len(blocks)'
BL_State1_NoOrder(f) ==
  LET m == reBlock(f.line) IN
  IF m = None THEN Fail(f, "blocklist.py:23")
  ELSE LET b == BL_parseBlock(m)
           f1 == [f EXCEPT !.blk = [hdr |-> b, line |-> f.line],
                           !.nLines = b.nLines]
       IN IF ~(b.idx < f.nBlocks) THEN Bare(f1, "blocklist.py:84")
          ELSE Ok([f1 EXCEPT !.state = 2, !.lines = <<>>])

\* state 1: the line must be a block header carrying the next index
BL_State1(f) ==
  LET m == reBlock(f.line) IN
  IF m = None THEN Fail(f, "blocklist.py:23")
  ELSE LET b == BL_parseBlock(m)
           f1 == [f EXCEPT !.blk = [hdr |-> b, line |-> f.line],
                           !.nLines = b.nLines]
       IN IF ~(b.idx < f.nBlocks) THEN Bare(f1, "blocklist.py:84")
          ELSE IF b.idx # Len(f.blocks)
          THEN Raise(f1, "blocklist.py:85", <<b.idx, 0>>)
          ELSE Ok([f1 EXCEPT !.state = 2, !.lines = <<>>])

\* BL_State2 skipping a line that is no line header instead of asserting
BL_State2_Lenient(f) ==
  LET m == reLine(f.line) IN
  IF m = None THEN Ok(f)
  ELSE LET ln == BL_parseLine(m)
           f1 == [f EXCEPT !.lines = Append(f.lines, [e |-> ln, line |-> f.line])]
       IN IF ~(ln.idx < f.nLines) THEN Bare(f1, "blocklist.py:92")
          ELSE IF Len(f1.lines) = f.nLines
          THEN LET f2 == [f1 EXCEPT !.blocks =
                            Append(f1.blocks, [blk |-> f.blk, lines |-> f1.lines])]
               IN IF Len(f2.blocks) = f.nBlocks
                  THEN Ok([f2 EXCEPT !.state = 0, !.blocksList =
                             Append(f2.blocksList,
                                    [title |-> f.title, titleLine |-> f.titleLine,
                                     blocks |-> f2.blocks])])
                  ELSE Ok([f2 EXCEPT !.state = 1])
          ELSE Ok(f1)

\* state 2: the line must be a line header of the open block
BL_State2(f) ==
  LET m == reLine(f.line) IN
  IF m = None THEN Fail(f, "blocklist.py:36")
  ELSE LET ln == BL_parseLine(m)
           f1 == [f EXCEPT !.lines = Append(f.lines, [e |-> ln, line |-> f.line])]
       IN IF ~(ln.idx < f.nLines) THEN Bare(f1, "blocklist.py:92")
          ELSE IF Len(f1.lines) = f.nLines
          THEN LET f2 == [f1 EXCEPT !.blocks =
                            Append(f1.blocks, [blk |-> f.blk, lines |-> f1.lines])]
               IN IF Len(f2.blocks) = f.nBlocks
                  THEN Ok([f2 EXCEPT !.state = 0, !.blocksList =
                             Append(f2.blocksList,
                                    [title |-> f.title, titleLine |-> f.titleLine,
                                     blocks |-> f2.blocks])])
                  ELSE Ok([f2 EXCEPT !.state = 1])
          ELSE Ok(f1)

\* one iteration of the 'for i1, line in enumerate(f)' loop
BL_Step(f0, wanted, l) ==
  LET f == [f0 EXCEPT !.i = f0.i + 1, !.line = l] IN
  IF l.k = "blank" THEN Ok(f)
  ELSE IF f.state = 0 THEN BL_State0(f, wanted)
  ELSE IF f.state = 1 THEN BL_State1(f)
  ELSE BL_State2(f)

\* after the loop: the final assertion and the return
BL_Finish(f) ==
  IF f.nBlocks = Len(f.blocks) THEN Ok(f) ELSE Bare(f, "blocklist.py:105")


(* ------------------------------------------------------------------ *)
(* Lines of a block_lines.py / block_pools.py trace                   *)
(* ------------------------------------------------------------------ *)
Headers == {"lines built", "before discardDuplicatedText"}

\* a declared count as lines=(-?\d+) and pools=(-?\d+) can write it
SignedCounts == (0..MaxCount) \cup {-1}

\* 'textBlock: <header> blk=<n>----'
TbLine(h) == [k |-> "tb", header |-> h, blk |-> 0]
\* 'block <idx>: rot=0 {llx urx lly ury} col=0 nCols=0 lines=<nl> pools=<np>'
BlkPLine(idx, nl, np) ==
  [k |-> "blkp", idx |-> idx, rot |-> 0, llx |-> Geo.llx, urx |-> Geo.urx,
   lly |-> Geo.lly, ury |-> Geo.ury, nLines |-> nl, nPools |-> np]
\* 'pool <idx>: baseIdx=<baseIdx> len=<n>'
PoolLine(idx, n) == [k |-> "pool", idx |-> idx, baseIdx |-> 24, len |-> n]
\* 'word <idx>: serial=0 base=<base> {llx urx lly ury} fontsize=<fs> "<text>"'
WordLine(idx) ==
  [k |-> "word", idx |-> idx, base |-> 9996, llx |-> Geo.llx, urx |-> Geo.urx,
   lly |-> Geo.lly, ury |-> Geo.ury, fontsize |-> 1435, text |-> "High"]

LN_Lines ==
  {BlankLine, JunkLine}
    \cup {TbLine(h) : h \in Headers}
    \cup {BlkPLine(0, n, 0) : n \in SignedCounts}
    \cup {LineLine(x) : x \in 0..1}

BP_Lines ==
  {BlankLine, JunkLine}
    \cup {TbLine(h) : h \in Headers}
    \cup {BlkPLine(0, 0, n) : n \in SignedCounts}
    \cup {PoolLine(0, n) : n \in 0..MaxCount}
    \cup {WordLine(x) : x \in 0..1}

\* reBlk0.search(line)
reBlk0(l) == IF l.k = "tb" THEN <<l.header, l.blk>> ELSE None
\* block_lines / block_pools reBlock.search(line): (\d+) and (-?\d+) do not
\* match '-', (\S+) does, and what follows pools= is not looked at
reBlockP(l) ==
  IF l.k = "blkp" /\ Hyphen \notin {l.idx, l.rot, l.nLines, l.nPools}
  THEN <<l.idx, l.rot, l.llx, l.urx, l.lly, l.ury, l.nLines, l.nPools>>
  ELSE None
\* rePool.search(line)
rePool(l) ==
  IF l.k = "pool" /\ Hyphen \notin {l.idx, l.baseIdx, l.len}
  THEN <<l.idx, l.baseIdx, l.len>>
  ELSE None
\* reWord.search(line)
reWord(l) ==
  IF l.k = "word" /\ l.idx # Hyphen
  THEN <<l.idx, l.base, l.llx, l.urx, l.lly, l.ury, l.fontsize, l.text>>
  ELSE None

\* float() of the text of an integer field, in hundredths
FloatOfInt(n) == 100 * n

(* ------------------------------------------------------------------ *)
(* block_lines.py                                                     *)
(* ------------------------------------------------------------------ *)
LN_parseBlock(m) ==
  [idx |-> m[1], rot |-> m[2], llx |-> m[3], urx |-> m[4], lly |-> m[5],
   ury |-> m[6], nLines |-> m[7], nPools |-> m[8]]

\* parseLine reads groups 1..7 of the eight reLine captures: its text is the
\* group that holds the font size
LN_parseLine(m, l) ==
  [base |-> FloatOfInt(m[1]), llx |-> m[2], urx |-> m[3], lly |-> m[4],
   ury |-> m[5], fontsize |-> m[6], text |-> Numeral(m[7]), line |-> l]

LN_Frame ==
  [i |-> 0, line |-> NoLine, blocks |-> <<>>, lines |-> <<>>, nLines |-> 0,
   header |-> None, state |-> 0, block |-> Unbound]

\* the block whose line count is met is appended when the next line is read
LN_Flush(f) ==
  IF f.state = 2 /\ Len(f.lines) = f.nLines
  THEN [f EXCEPT !.blocks = Append(f.blocks,
                    [header |-> f.header, block |-> f.block, lines |-> f.lines]),
                 !.state = 0, !.lines = <<>>, !.nLines = 0]
  ELSE f

LN_Dispatch(f) ==
  IF f.state = 0
  THEN LET m == reBlk0(f.line) IN
       IF m # None THEN Ok([f EXCEPT !.header = m[1], !.state = 1]) ELSE Ok(f)
  ELSE IF f.state = 1
  THEN LET m == reBlockP(f.line) IN
       IF m = None THEN Fail(f, "block_lines.py:40")
       ELSE LET b == LN_parseBlock(m) IN
            Ok([f EXCEPT !.block = b, !.state = 2, !.nLines = b.nLines,
                         !.lines = <<>>])
  ELSE LET m == reLine(f.line) IN
       IF m = None THEN Fail(f, "block_lines.py:63")
       ELSE Ok([f EXCEPT !.lines = Append(f.lines, LN_parseLine(m, f.line))])

\* the assertion that closes every iteration
LN_Check(o) ==
  IF o.err = NoErr /\ o.fr.state # 0 /\ ~(Len(o.fr.lines) <= o.fr.nLines)
  THEN Bare(o.fr, "block_lines.py:132")
  ELSE o

LN_Step(f0, l) ==
  LET f == [f0 EXCEPT !.i = f0.i + 1, !.line = l] IN
  IF l.k = "blank" THEN Ok(f) ELSE LN_Check(LN_Dispatch(LN_Flush(f)))

(* ------------------------------------------------------------------ *)
(* block_pools.py                                                     *)
(* ------------------------------------------------------------------ *)
BP_parseBlock(i, m, l) ==
  [i |-> i, idx |-> m[1], rot |-> m[2], llx |-> m[3], urx |-> m[4],
   lly |-> m[5], ury |-> m[6], nLines |-> m[7], nPools |-> m[8], line |-> l]

BP_parsePool(i, m, l) ==
  [i |-> i, idx |-> m[1], baseIdx |-> m[2], nWords |-> m[3], line |-> l]

BP_parseWord(m) ==
  [idx |-> m[1], base |-> m[2], llx |-> m[3], urx |-> m[4], lly |-> m[5],
   ury |-> m[6], fontsize |-> m[7], text |-> m[8]]

BP_Frame ==
  [i |-> 0, line |-> NoLine, blocks |-> <<>>, pools |-> <<>>, words |-> <<>>,
   nPools |-> 0, nWords |-> 0, header |-> None, state |-> 0,
   block |-> Unbound, pool |-> Unbound]

\* BP_FlushPool appending the pool as soon as it holds a word
BP_FlushPool_Eager(f) ==
  IF f.state = 3 /\ Len(f.words) >= 1
  THEN [f EXCEPT !.pools = Append(f.pools, [pool |-> f.pool, words |-> f.words]),
                 !.state = 2, !.words = <<>>, !.nWords = 0]
  ELSE f

\* BP_FlushPool appending the pool only when it holds more words than its
\* header declares
BP_FlushPool_Late(f) ==
  IF f.state = 3 /\ Len(f.words) > f.nWords
  THEN [f EXCEPT !.pools = Append(f.pools, [pool |-> f.pool, words |-> f.words]),
                 !.state = 2, !.words = <<>>, !.nWords = 0]
  ELSE f

\* the pool whose word count is met is appended when the next line is read
BP_FlushPool(f) ==
  IF f.state = 3 /\ Len(f.words) = f.nWords
  THEN [f EXCEPT !.pools = Append(f.pools, [pool |-> f.pool, words |-> f.words]),
                 !.state = 2, !.words = <<>>, !.nWords = 0]
  ELSE f

\* and then the block whose pool count is met
BP_FlushBlock(f) ==
  IF f.state = 2 /\ Len(f.pools) = f.nPools
  THEN [f EXCEPT !.blocks = Append(f.blocks,
                    [header |-> f.header, block |-> f.block, pools |-> f.pools]),
                 !.state = 0, !.pools = <<>>, !.nPools = 0]
  ELSE f

BP_Dispatch(f) ==
  IF f.state = 0
  THEN LET m == reBlk0(f.line) IN
       IF m # None THEN Ok([f EXCEPT !.header = m[1], !.state = 1]) ELSE Ok(f)
  ELSE IF f.state = 1
  THEN LET m == reBlockP(f.line) IN
       IF m = None THEN Fail(f, "block_pools.py:51")
       ELSE LET b == BP_parseBlock(f.i, m, f.line) IN
            Ok([f EXCEPT !.block = b, !.state = 2, !.nPools = b.nPools,
                         !.pools = <<>>])
  ELSE IF f.state = 2
  THEN LET m == rePool(f.line) IN
       IF m = None THEN Fail(f, "block_pools.py:65")
       ELSE LET p == BP_parsePool(f.i, m, f.line) IN
            IF ~(p.nWords > 0) THEN Raise(f, "block_pools.py:69", <<f.i, f.line>>)
            ELSE Ok([f EXCEPT !.pool = p, !.state = 3, !.nWords = p.nWords,
                              !.words = <<>>])
  ELSE LET m == reWord(f.line) IN
       IF m = None THEN Fail(f, "block_pools.py:87")
       ELSE Ok([f EXCEPT !.words = Append(f.words, BP_parseWord(m))])

\* the two assertions that close every iteration
BP_Check(o) ==
  IF o.err = NoErr /\ o.fr.state # 0 /\ ~(Len(o.fr.pools) <= o.fr.nPools)
  THEN Bare(o.fr, "block_pools.py:157")
  ELSE IF o.err = NoErr /\ o.fr.state # 0 /\ ~(Len(o.fr.words) <= o.fr.nWords)
  THEN Bare(o.fr, "block_pools.py:158")
  ELSE o

BP_Step(f0, l) ==
  LET f == [f0 EXCEPT !.i = f0.i + 1, !.line = l] IN
  IF l.k = "blank" THEN Ok(f)
  ELSE BP_Check(BP_Dispatch(BP_FlushBlock(BP_FlushPool(f))))

(* ------------------------------------------------------------------ *)
(* pools.py                                                           *)
(* ------------------------------------------------------------------ *)
\* '... *@* <header> *#*'
PHdrLine(h) == [k |-> "phdr", header |-> h]
\* '!!1 rot=<r> ---------------'
RotLine(r) == [k |-> "rot", rot |-> r]
\* '!!2 baseIdx=<b> n=<n> ---------------'
BaseLine(b, n) == [k |-> "base", baseIdx |-> b, n |-> n]
\* 'word <idx>: base=<base> {llx urx lly ury} fontsize=<fs> "<text>"'
PWordLine(idx) ==
  [k |-> "pword", idx |-> idx, base |-> 3126, llx |-> Geo.llx, urx |-> Geo.urx,
   lly |-> Geo.lly, ury |-> Geo.ury, fontsize |-> 1000, text |-> "VOX"]

\* pools.scan neither strips nor skips: a blank line is a line that matches
\* no grammar
PL_Lines ==
  {JunkLine, PHdrLine("initial words")}
    \cup {RotLine(r) : r \in 0..1}
    \cup {BaseLine(b, n) : b \in {7, 8}, n \in 0..MaxCount}
    \cup {PWordLine(x) : x \in 0..1}

reHeader(l) == IF l.k = "phdr" THEN <<l.header>> ELSE None
reRot(l) == IF l.k = "rot" THEN <<l.rot>> ELSE None
reBase(l) == IF l.k = "base" THEN <<l.baseIdx, l.n>> ELSE None
\* pools.py reWord.search(line)
rePWord(l) ==
  IF l.k = "pword"
  THEN <<l.idx, l.base, l.llx, l.urx, l.lly, l.ury, l.fontsize, l.text>>
  ELSE None

\* locals of pools.scan; the list 'lines' of all lines read is written
\* and never read, and is left out
PL_Frame ==
  [i |-> -1, line |-> NoLine, instances |-> <<>>, header |-> None,
   rots |-> <<>>, bases |-> <<>>, words |-> <<>>, state |-> 0,
   done |-> FALSE, rot |-> Unbound, baseIdx |-> Unbound,
   numWords |-> Unbound]

\* one pass of the body of 'for scan in (1, 2)'; brk: the pass ended in break
PL_Go(f) == [fr |-> f, err |-> NoErr, brk |-> FALSE]
PL_Break(f) == [fr |-> f, err |-> NoErr, brk |-> TRUE]

PL_State0(f) ==
  IF f.rots # <<>>
  THEN PL_Break([f EXCEPT !.instances = Append(f.instances,
                             [i |-> f.i, header |-> f.header, rots |-> f.rots]),
                          !.header = None, !.done = TRUE])
  ELSE LET m == reHeader(f.line) IN
       IF m # None
       THEN PL_Break([f EXCEPT !.state = 1, !.header = m[1], !.rots = <<>>])
       ELSE PL_Go(f)

PL_State1(f) ==
  LET f1 == IF f.bases # <<>>
            THEN [f EXCEPT !.rots = Append(f.rots,
                              [rot |-> f.rot, bases |-> f.bases]),
                           !.state = 0]
            ELSE f
      m == reRot(f.line)
  IN IF m # None
     THEN PL_Break([f1 EXCEPT !.state = 2, !.rot = m[1], !.bases = <<>>])
     ELSE PL_Go(f1)

\* numWords of a pool is the count its header declared; the code appends
\* (baseIdx, words) and the model keeps the count beside them
PL_State2(f) ==
  LET f1 == IF f.words # <<>>
            THEN [f EXCEPT !.bases = Append(f.bases,
                              [baseIdx |-> f.baseIdx, words |-> f.words,
                               numWords |-> f.numWords]),
                           !.state = 1]
            ELSE f
      m == reBase(f.line)
  IN IF m # None
     THEN PL_Break([f1 EXCEPT !.state = 3, !.baseIdx = m[1],
                              !.numWords = m[2], !.words = <<>>])
     ELSE PL_Go(f1)

PL_parseWord(m, l) ==
  [idx |-> m[1], base |-> m[2], llx |-> m[3], urx |-> m[4], lly |-> m[5],
   ury |-> m[6], fontsize |-> m[7], text |-> m[8], line |-> l]

PL_State3(f) ==
  LET m == rePWord(f.line) IN
  IF m # None
  THEN PL_Break([f EXCEPT !.words = Append(f.words, PL_parseWord(m, f.line))])
  ELSE IF Len(f.words) # f.numWords
       THEN [fr |-> f, brk |-> TRUE,
             err |-> Raise(f, "pools.py:100",
                           <<Len(f.words), f.numWords, f.line>>).err]
       ELSE PL_Go([f EXCEPT !.state = 2])

PL_Pass(f) ==
  IF f.state = 0 THEN PL_State0(f)
  ELSE IF f.state = 1 THEN PL_State1(f)
  ELSE IF f.state = 2 THEN PL_State2(f)
  ELSE PL_State3(f)

\* one iteration of 'for i, line in enumerate(f)' past the 'if done' test
PL_Step(f0, l) ==
  LET f == [f0 EXCEPT !.i = f0.i + 1, !.line = l]
      p1 == PL_Pass(f)
      p2 == IF p1.brk THEN p1 ELSE PL_Pass(p1.fr)
  IN [fr |-> p2.fr, err |-> p2.err]

\* after the loop
PL_Finish(f) ==
  IF f.instances # <<>> THEN Ok(f) ELSE Bare(f, "pools.py:107")

(* ------------------------------------------------------------------ *)
(* Actions of the scans                                               *)
(* ------------------------------------------------------------------ *)
\* what an iteration's outcome does to the run
Outcome(o) ==
  /\ fr' = o.fr
  /\ err' = o.err
  /\ pc' = IF o.err = NoErr THEN "scan" ELSE "aborted"
  /\ UNCHANGED <<prog, wantedTitle, ret>>

\* the code after the loop runs and scan returns 'value'
Finish(o, value) ==
  /\ fr' = o.fr
  /\ err' = o.err
  /\ pc' = IF o.err = NoErr THEN "returned" ELSE "aborted"
  /\ ret' = IF o.err = NoErr THEN value ELSE ret
  /\ UNCHANGED <<prog, wantedTitle>>

\* lines the scan has read
NRead == IF prog = "pools" THEN fr.i + 1 ELSE fr.i

BL_ReadLine ==
  /\ prog = "blocklist" /\ pc = "scan" /\ NRead < MaxLines
  /\ \E l \in BL_Lines : Outcome(BL_Step(fr, wantedTitle, l))

BL_EndOfFile ==
  /\ prog = "blocklist" /\ pc = "scan"
  /\ Finish(BL_Finish(fr), fr.blocksList)

LN_ReadLine ==
  /\ prog = "block_lines" /\ pc = "scan" /\ NRead < MaxLines
  /\ \E l \in LN_Lines : Outcome(LN_Step(fr, l))

LN_EndOfFile ==
  /\ prog = "block_lines" /\ pc = "scan"
  /\ Finish(Ok(fr), fr.blocks)

BP_ReadLine ==
  /\ prog = "block_pools" /\ pc = "scan" /\ NRead < MaxLines
  /\ \E l \in BP_Lines : Outcome(BP_Step(fr, l))

BP_EndOfFile ==
  /\ prog = "block_pools" /\ pc = "scan"
  /\ Finish(Ok(fr), fr.blocks)

PL_ReadLine ==
  /\ prog = "pools" /\ pc = "scan" /\ NRead < MaxLines /\ ~fr.done
  /\ \E l \in PL_Lines : Outcome(PL_Step(fr, l))

\* the file ends, or the loop breaks on 'done'
PL_EndOfFile ==
  /\ prog = "pools" /\ pc = "scan"
  /\ Finish(PL_Finish(fr), fr.instances)

Frame(p) ==
  IF p = "blocklist" THEN BL_Frame
  ELSE IF p = "block_lines" THEN LN_Frame
  ELSE IF p = "block_pools" THEN BP_Frame
  ELSE PL_Frame

InitScan ==
  /\ prog \in {"blocklist", "block_lines", "block_pools", "pools"}
  /\ wantedTitle \in IF prog = "blocklist" THEN {None, "sorted"} ELSE {None}
  /\ fr = Frame(prog)
  /\ pc = "scan"
  /\ ret = None
  /\ err = NoErr

NextScan ==
  \/ BL_ReadLine \/ BL_EndOfFile
  \/ LN_ReadLine \/ LN_EndOfFile
  \/ BP_ReadLine \/ BP_EndOfFile
  \/ PL_ReadLine \/ PL_EndOfFile

SpecScan == InitScan /\ [][NextScan]_vars

(* ------------------------------------------------------------------ *)
(* The comparisons: values                                            *)
(* ------------------------------------------------------------------ *)
\* most children a compared node has on either side
MaxKids == 2

\* TOL = 0.1
TOL == 10

Abs(x) == IF x < 0 THEN -x ELSE x
\* the larger of the two, where the code takes the smaller
Min_Larger(a, b) == IF a < b THEN b ELSE a

\* min(a, b)
Min(a, b) == IF a < b THEN a ELSE b

RECURSIVE Pow2(_)
Pow2(k) == IF k = 0 THEN 1 ELSE 2 * Pow2(k - 1)

RECURSIVE Pow2Mod100(_)
Pow2Mod100(k) == IF k = 0 THEN 1 ELSE (2 * Pow2Mod100(k - 1)) % 100

RECURSIVE Exp2Up(_, _)
Exp2Up(h, p) == IF 100 * Pow2(p + 1) <= h THEN Exp2Up(h, p + 1) ELSE p

RECURSIVE Exp2Down(_, _)
Exp2Down(h, q) == IF h * Pow2(q) >= 100 THEN -q ELSE Exp2Down(h, q + 1)

\* the binary exponent p of h hundredths: 2^p <= h/100 < 2^(p+1)
Exp2(h) == IF h >= 100 THEN Exp2Up(h, 0) ELSE Exp2Down(h, 1)

\* float() rounds h/100 to the nearest multiple of 2^-k, k = 52 - Exp2(h).
\* FloatErr is float(h/100) - h/100 in units of 2^-60 / 100: with r the
\* residue of h * 2^k modulo 100, the nearest multiple lies r below or
\* 100 - r above (r is a multiple of 4 and never 50)
FloatErr(h) ==
  IF h = 0 THEN 0
  ELSE LET k == 52 - Exp2(h)
           r == ((h % 100) * Pow2Mod100(k)) % 100
       IN (IF r <= 50 THEN -r ELSE 100 - r) * Pow2(60 - k)

\* x1 == x2 on floats
FloatEq(x1, x2) == x1 # NaN /\ x2 # NaN /\ x1 = x2

\* equal without abs: x1 - x2 < TOL
equal_OneSided(x1, x2) ==
  x1 # NaN /\ x2 # NaN /\ x1 - x2 < TOL

\* abs(x1 - x2) < TOL on floats. Away from the boundary the rounding of
\* float() cannot change the outcome. Where the hundredths differ by TOL the
\* float difference is 0.1 plus the rounding errors of the two numbers; it is
\* below float(0.1) when it rounds to a float below it, that is when it lies
\* more than half a unit in the last place (2^-57, 800 units) below
equal(x1, x2) ==
  IF x1 = NaN \/ x2 = NaN THEN FALSE
  ELSE LET d == Abs(x1 - x2)
           hi == IF x1 < x2 THEN x2 ELSE x1
           lo == IF x1 < x2 THEN x1 ELSE x2
       IN \/ d < TOL
          \/ d = TOL /\ FloatErr(hi) - FloatErr(lo) - FloatErr(TOL) < -800

\* a text is the sequence of its characters
RECURSIVE Without(_, _)
\* text.replace(c, '')
Without(text, c) ==
  IF text = <<>> THEN <<>>
  ELSE IF Head(text) = c THEN Without(Tail(text), c)
  ELSE <<Head(text)>> \o Without(Tail(text), c)

\* exclusions = ['\x13', '\x19']
exclusions == {"\\x13", "\\x19"}
exclude(text) == \E k \in DOMAIN text : text[k] \in exclusions

\* differences, in hundredths, between the numbers of two aligned headers
Deltas == {4, 10, 16}

Texts ==
  {<<"P", "E", "R", "S">>, <<"p", "e", "r", "s">>, <<"P", " ", "E", "R", "S">>,
   <<"P", "\t", "E", "R", "S">>, <<"P", "E", "R", "X">>,
   <<"P", "E", "R", "S", "\\x13">>}

\* the line or word header of index j that the others are variations of
Hdr0(kind, j) ==
  [k |-> kind, idx |-> j, base |-> 1814, llx |-> 53147, urx |-> 56693,
   lly |-> 75855, ury |-> 76755, fontsize |-> 900,
   text |-> <<"P", "E", "R", "S">>]

\* headers of index j: Hdr0 and its variations in one field
CmpHdrs(kind, j) ==
  LET h == Hdr0(kind, j) IN
  {h, [h EXCEPT !.idx = j + 1], [h EXCEPT !.lly = @ + 16],
   [h EXCEPT !.ury = @ + 16], [h EXCEPT !.fontsize = @ + 4]}
    \cup {[h EXCEPT !.base = @ + d] : d \in Deltas}
    \cup {[h EXCEPT !.llx = @ + d] : d \in Deltas}
    \cup {[h EXCEPT !.urx = @ + d] : d \in Deltas}
    \cup {[h EXCEPT !.text = t] : t \in Texts}
    \cup {[h EXCEPT !.base = NaN], [h EXCEPT !.llx = NaN]}

\* the pairs of aligned headers of index j that are compared: a header
\* against itself, and Hdr0 against a variation on either side
CmpPairs(kind, j) ==
  {p \in CmpHdrs(kind, j) \X CmpHdrs(kind, j) :
     p[1] = p[2] \/ p[1] = Hdr0(kind, j) \/ p[2] = Hdr0(kind, j)}

\* block headers of index i declaring nl lines
CmpBlkLines(i, nl) ==
  {BlkLine(i, nl), [BlkLine(i, nl) EXCEPT !.llx = @ + 4],
   [BlkLine(i, nl) EXCEPT !.urx = @ + 4], [BlkLine(i, nl) EXCEPT !.lly = @ + 4],
   [BlkLine(i, nl) EXCEPT !.ury = @ + 16]}

\* block headers of the lines= pools= grammar
CmpBlkPLines(nl) ==
  {BlkPLine(x, nl, 0) : x \in 0..1}
    \cup {[BlkPLine(0, nl, 0) EXCEPT !.llx = @ + 4],
          [BlkPLine(0, nl, 0) EXCEPT !.urx = @ + 4],
          [BlkPLine(0, nl, 0) EXCEPT !.ury = @ + 4]}

\* the comparison went on / an assertion of the comparison failed
Pass == NoErr
Stop(at, msg) == [at |-> at, msg |-> msg]

\* the first of a sequence of <<condition, source line>> assertions that fails
RECURSIVE FirstFailure(_, _)
FirstFailure(asserts, msg) ==
  IF asserts = <<>> THEN Pass
  ELSE IF ~Head(asserts)[1] THEN Stop(Head(asserts)[2], msg)
  ELSE FirstFailure(Tail(asserts), msg)

NoNode == [k |-> "none"]

(* ------------------------------------------------------------------ *)
(* blocklist.py: the comparison of the two block lists                *)
(* ------------------------------------------------------------------ *)
\* 'assert len(blockList1) == len(blockList2)'
BLC_CheckLists(len1, len2) ==
  FirstFailure(<< <<len1 = len2, "blocklist.py:176">> >>, <<>>)

\* 'assert ttb1[0] == ttb2[0]' and the title assertion of validateBlocks
BLC_CheckGroup(ttb1, ttb2) ==
  FirstFailure(<< <<ttb1.title = ttb2.title, "blocklist.py:181">>,
                  <<ttb1.title = ttb2.title, "blocklist.py:124">> >>,
               <<ttb1.titleLine, ttb2.titleLine>>)

\* the assertions on two aligned blocks; b.blk is the parsed header and
\* b.kids is len(lines)
BLC_CheckBlock(b1, b2) ==
  FirstFailure(<< <<b1.blk.hdr.idx = b2.blk.hdr.idx, "blocklist.py:139">>,
                  <<FloatEq(b1.blk.hdr.llx, b2.blk.hdr.llx), "blocklist.py:140">>,
                  <<FloatEq(b1.blk.hdr.urx, b2.blk.hdr.urx), "blocklist.py:141">>,
                  <<b1.blk.hdr.nLines = b2.blk.hdr.nLines, "blocklist.py:142">>,
                  <<b1.kids = b2.kids, "blocklist.py:144">> >>,
               <<b1.blk, b2.blk>>)

\* BLC_CheckLine without the assertion on base
BLC_CheckLine_NoBase(j, e1, e2) ==
  FirstFailure(<< <<equal(e1.e.llx, e2.e.llx), "blocklist.py:158">>,
                  <<equal(e1.e.urx, e2.e.urx), "blocklist.py:159">>,
                  <<FloatEq(e1.e.fontsize, e2.e.fontsize), "blocklist.py:163">>,
                  <<Without(e1.e.text, " ") = Without(e2.e.text, " "),
                    "blocklist.py:164">> >>,
               <<j, e1, e2>>)

\* BLC_CheckLine with tabs removed from the texts as well as spaces
BLC_CheckLine_NoTabs(j, e1, e2) ==
  FirstFailure(<< <<equal(e1.e.llx, e2.e.llx), "blocklist.py:158">>,
                  <<equal(e1.e.urx, e2.e.urx), "blocklist.py:159">>,
                  <<equal(e1.e.base, e2.e.base), "blocklist.py:162">>,
                  <<FloatEq(e1.e.fontsize, e2.e.fontsize), "blocklist.py:163">>,
                  <<Without(Without(e1.e.text, " "), "\t")
                      = Without(Without(e2.e.text, " "), "\t"),
                    "blocklist.py:164">> >>,
               <<j, e1, e2>>)

\* BLC_CheckLine with the assertions on lly and ury that blocklist.py:160-161
\* hold as comments
BLC_CheckLine_FourSides(j, e1, e2) ==
  FirstFailure(<< <<equal(e1.e.llx, e2.e.llx), "blocklist.py:158">>,
                  <<equal(e1.e.urx, e2.e.urx), "blocklist.py:159">>,
                  <<FloatEq(e1.e.lly, e2.e.lly), "blocklist.py:160">>,
                  <<FloatEq(e1.e.ury, e2.e.ury), "blocklist.py:161">>,
                  <<equal(e1.e.base, e2.e.base), "blocklist.py:162">>,
                  <<FloatEq(e1.e.fontsize, e2.e.fontsize), "blocklist.py:163">>,
                  <<Without(e1.e.text, " ") = Without(e2.e.text, " "),
                    "blocklist.py:164">> >>,
               <<j, e1, e2>>)

\* the assertions on two aligned lines
BLC_CheckLine(j, e1, e2) ==
  FirstFailure(<< <<equal(e1.e.llx, e2.e.llx), "blocklist.py:158">>,
                  <<equal(e1.e.urx, e2.e.urx), "blocklist.py:159">>,
                  <<equal(e1.e.base, e2.e.base), "blocklist.py:162">>,
                  <<FloatEq(e1.e.fontsize, e2.e.fontsize), "blocklist.py:163">>,
                  <<Without(e1.e.text, " ") = Without(e2.e.text, " "),
                    "blocklist.py:164">> >>,
               <<j, e1, e2>>)

\* locals of the comparison: the level the walk is at, the lengths of the
\* lists walked, the loop indices and the two nodes just compared; printed
\* is the message that pools.py prints about the words just compared
CmpFrame ==
  [lvl |-> "main", len1 |-> 0, len2 |-> 0, g |-> 0, n1 |-> 0, n2 |-> 0,
   n |-> 0, i |-> 0, m |-> 0, j |-> 0, llx1 |-> 0, llx2 |-> 0,
   node1 |-> NoNode, node2 |-> NoNode, printed |-> <<>>]

\* the walk after the leaf of index f.j: the next leaf, block or group
AfterLeaf(f) ==
  IF f.j + 1 < f.m THEN [f EXCEPT !.j = f.j + 1]
  ELSE IF f.i + 1 < f.n THEN [f EXCEPT !.lvl = "block", !.i = f.i + 1]
  ELSE IF f.g + 1 < f.len1 THEN [f EXCEPT !.lvl = "group", !.g = f.g + 1]
  ELSE [f EXCEPT !.lvl = "end"]

\* the walk after the header of block f.i, which has m children
AfterBlock(f, m) ==
  IF m > 0 THEN [f EXCEPT !.lvl = "leaf", !.m = m, !.j = 0]
  ELSE AfterLeaf([f EXCEPT !.m = 0, !.j = 0])

\* the walk after the head of the list of blocks, n of which are walked
AfterGroup(f, n) ==
  IF n > 0 THEN [f EXCEPT !.lvl = "block", !.n = n, !.i = 0]
  ELSE AfterBlock([f EXCEPT !.n = 0, !.i = 0], 0)

\* one step of a comparison: the locals f with the nodes just read, the
\* outcome e of the assertions on them, and the locals 'after' to go on with
CmpOutcome(f, e, after) ==
  /\ fr' = IF e = Pass THEN after ELSE f
  /\ err' = e
  /\ pc' = IF e # Pass THEN "aborted"
           ELSE IF after.lvl = "end" THEN "done" ELSE "cmp"
  /\ UNCHANGED <<prog, wantedTitle, ret>>

\* the two block lists are in hand: their lengths are compared
BLC_Main ==
  /\ prog = "blocklist.cmp" /\ pc = "cmp" /\ fr.lvl = "main"
  /\ \E len1 \in 0..MaxKids, len2 \in 0..MaxKids :
       LET f == [fr EXCEPT !.len1 = len1, !.len2 = len2] IN
       CmpOutcome(f, BLC_CheckLists(len1, len2),
                  IF len1 > 0 THEN [f EXCEPT !.lvl = "group", !.g = 0]
                  ELSE [f EXCEPT !.lvl = "end"])

\* the body of the loop over the groups up to the loop over the blocks; a
\* group a scan returns has at least one block
BLC_Group ==
  /\ prog = "blocklist.cmp" /\ pc = "cmp" /\ fr.lvl = "group"
  /\ \E t1 \in Titles, t2 \in Titles, n1 \in 1..MaxKids, n2 \in 1..MaxKids :
       LET ttb1 == [title |-> t1, titleLine |-> GrpLine(t1, n1), kids |-> n1]
           ttb2 == [title |-> t2, titleLine |-> GrpLine(t2, n2), kids |-> n2]
           f == [fr EXCEPT !.node1 = ttb1, !.node2 = ttb2,
                           !.n1 = n1, !.n2 = n2]
       IN CmpOutcome(f, BLC_CheckGroup(ttb1, ttb2), AfterGroup(f, Min(n1, n2)))

\* the body of the loop over the blocks up to the loop over the lines; a
\* block a scan returns has the index of its place and the lines it declares
BLC_Block ==
  /\ prog = "blocklist.cmp" /\ pc = "cmp" /\ fr.lvl = "block"
  /\ \E nl1 \in 1..MaxKids, nl2 \in 1..MaxKids :
       \E l1 \in CmpBlkLines(fr.i, nl1), l2 \in CmpBlkLines(fr.i, nl2) :
         LET b1 == [blk |-> [hdr |-> BL_parseBlock(reBlock(l1)), line |-> l1],
                    kids |-> nl1]
             b2 == [blk |-> [hdr |-> BL_parseBlock(reBlock(l2)), line |-> l2],
                    kids |-> nl2]
             f == [fr EXCEPT !.node1 = b1, !.node2 = b2]
         IN CmpOutcome(f, BLC_CheckBlock(b1, b2), AfterBlock(f, nl1))

\* the body of the loop over the lines of a block
BLC_Line ==
  /\ prog = "blocklist.cmp" /\ pc = "cmp" /\ fr.lvl = "leaf"
  /\ \E p \in {q \in CmpPairs("line", fr.j) :
                   q[1].idx < fr.m /\ q[2].idx < fr.m} :
       LET l1 == p[1]
           l2 == p[2]
           e1 == [e |-> BL_parseLine(reLine(l1)), line |-> l1]
           e2 == [e |-> BL_parseLine(reLine(l2)), line |-> l2]
           f == [fr EXCEPT !.node1 = e1, !.node2 = e2]
       IN CmpOutcome(f, BLC_CheckLine(fr.j, e1, e2), AfterLeaf(f))

(* ------------------------------------------------------------------ *)
(* block_lines.py: the comparison of the two lists of blocks          *)
(* ------------------------------------------------------------------ *)
\* the assertions on two aligned blocks
LNC_CheckBlock(b1, b2) ==
  FirstFailure(<< <<b1.header = b2.header, "block_lines.py:173">>,
                  <<b1.kids = b2.kids, "block_lines.py:181">>,
                  <<b1.block.idx = b2.block.idx, "block_lines.py:186">>,
                  <<FloatEq(b1.block.llx, b2.block.llx), "block_lines.py:187">>,
                  <<FloatEq(b1.block.urx, b2.block.urx), "block_lines.py:188">>,
                  <<b1.block.nLines = b2.block.nLines, "block_lines.py:189">>,
                  <<b1.block.nLines = b1.kids, "block_lines.py:190">>,
                  <<b2.block.nLines = b2.kids, "block_lines.py:191">> >>,
               <<b1.header, b2.header>>)

\* the assertions on two aligned lines: the line binds lx1 and lx2, so that
\* llx1 and llx2 are still those of the blocks, and the font size of the
\* left line is compared with itself
LNC_CheckLine(j, llx1, llx2, e1, e2) ==
  FirstFailure(<< <<FloatEq(e1.base, e2.base), "block_lines.py:199">>,
                  <<FloatEq(llx1, llx2), "block_lines.py:200">>,
                  <<FloatEq(e1.urx, e2.urx), "block_lines.py:201">>,
                  <<FloatEq(e1.fontsize, e1.fontsize), "block_lines.py:202">>,
                  <<e1.text = e2.text, "block_lines.py:203">> >>,
               <<j, e1, e2>>)

\* the two lists of blocks are in hand: the shorter length bounds the walk
LNC_Main ==
  /\ prog = "block_lines.cmp" /\ pc = "cmp" /\ fr.lvl = "main"
  /\ \E n1 \in 0..MaxKids, n2 \in 0..MaxKids :
       LET f == [fr EXCEPT !.len1 = 1, !.len2 = 1, !.n1 = n1, !.n2 = n2]
       IN CmpOutcome(f, Pass, AfterGroup(f, Min(n1, n2)))

\* the body of the loop over the blocks up to the loop over the lines; a
\* block a scan returns has the lines it declares
LNC_Block ==
  /\ prog = "block_lines.cmp" /\ pc = "cmp" /\ fr.lvl = "block"
  /\ \E h1 \in Headers, h2 \in Headers, nl1 \in 0..MaxKids, nl2 \in 0..MaxKids :
       \E l1 \in CmpBlkPLines(nl1), l2 \in CmpBlkPLines(nl2) :
         LET b1 == [header |-> h1, block |-> LN_parseBlock(reBlockP(l1)),
                    kids |-> nl1]
             b2 == [header |-> h2, block |-> LN_parseBlock(reBlockP(l2)),
                    kids |-> nl2]
             f == [fr EXCEPT !.node1 = b1, !.node2 = b2,
                             !.llx1 = b1.block.llx, !.llx2 = b2.block.llx]
         IN CmpOutcome(f, LNC_CheckBlock(b1, b2), AfterBlock(f, nl1))

\* the body of the loop over the lines of a block
LNC_Line ==
  /\ prog = "block_lines.cmp" /\ pc = "cmp" /\ fr.lvl = "leaf"
  /\ \E p \in CmpPairs("line", fr.j) :
       LET l1 == p[1]
           l2 == p[2]
           e1 == LN_parseLine(reLine(l1), l1)
           e2 == LN_parseLine(reLine(l2), l2)
           f == [fr EXCEPT !.node1 = e1, !.node2 = e2]
       IN CmpOutcome(f, LNC_CheckLine(fr.j, fr.llx1, fr.llx2, e1, e2),
                     AfterLeaf(f))

(* ------------------------------------------------------------------ *)
(* pools.py: compareInstance on the first rotation of each side       *)
(* ------------------------------------------------------------------ *)
\* 'assert len(bases1) == len(bases2)'
PLC_CheckBases(n1, n2) ==
  FirstFailure(<< <<n1 = n2, "pools.py:133">> >>, <<>>)

\* the assertions on two aligned pools
PLC_CheckBase(b1, b2) ==
  FirstFailure(<< <<b1.baseIdx = b2.baseIdx, "pools.py:141">>,
                  <<b1.kids = b2.kids, "pools.py:142">> >>, <<>>)

\* PLC_CheckWord with the numbers compared by equal
PLC_CheckWord_Tolerant(j, w1, w2) ==
  FirstFailure(<< <<equal(w1.base, w2.base), "pools.py:151">>,
                  <<equal(w1.llx, w2.llx), "pools.py:152">>,
                  <<equal(w1.urx, w2.urx), "pools.py:153">>,
                  <<equal(w1.fontsize, w2.fontsize), "pools.py:154">>,
                  <<exclude(w1.text) = exclude(w2.text) => w1.text = w2.text,
                    "pools.py:160">> >>,
               <<j, w1.line, w2.line>>)

\* PLC_CheckWord with the texts asserted equal whatever they hold
PLC_CheckWord_Strict(j, w1, w2) ==
  FirstFailure(<< <<FloatEq(w1.base, w2.base), "pools.py:151">>,
                  <<FloatEq(w1.llx, w2.llx), "pools.py:152">>,
                  <<FloatEq(w1.urx, w2.urx), "pools.py:153">>,
                  <<FloatEq(w1.fontsize, w2.fontsize), "pools.py:154">>,
                  <<w1.text = w2.text, "pools.py:160">> >>,
               <<j, w1.line, w2.line>>)

\* the assertions on two aligned words
PLC_CheckWord(j, w1, w2) ==
  FirstFailure(<< <<FloatEq(w1.base, w2.base), "pools.py:151">>,
                  <<FloatEq(w1.llx, w2.llx), "pools.py:152">>,
                  <<FloatEq(w1.urx, w2.urx), "pools.py:153">>,
                  <<FloatEq(w1.fontsize, w2.fontsize), "pools.py:154">>,
                  <<exclude(w1.text) = exclude(w2.text) => w1.text = w2.text,
                    "pools.py:160">> >>,
               <<j, w1.line, w2.line>>)

\* 'if exclude(text1) or exclude(text2): print(msg)', which is reached when
\* the assertions on the numbers have passed
PLC_Printed(j, w1, w2) ==
  IF /\ PLC_CheckWord(j, w1, w2).at \in {"none", "pools.py:160"}
     /\ (exclude(w1.text) \/ exclude(w2.text))
  THEN <<j, w1.line, w2.line>>
  ELSE <<>>

\* the head of compareInstance; a rotation a scan returns has a pool
PLC_Main ==
  /\ prog = "pools.cmp" /\ pc = "cmp" /\ fr.lvl = "main"
  /\ \E n1 \in 1..MaxKids, n2 \in 1..MaxKids :
       LET f == [fr EXCEPT !.len1 = 1, !.len2 = 1, !.n1 = n1, !.n2 = n2]
       IN CmpOutcome(f, PLC_CheckBases(n1, n2), AfterGroup(f, Min(n1, n2)))

\* the body of the loop over the pools up to the loop over the words; a
\* pool a scan returns has a word
PLC_Base ==
  /\ prog = "pools.cmp" /\ pc = "cmp" /\ fr.lvl = "block"
  /\ \E x1 \in {7, 8}, x2 \in {7, 8}, nw1 \in 1..MaxKids, nw2 \in 1..MaxKids :
       LET b1 == [baseIdx |-> x1, kids |-> nw1]
           b2 == [baseIdx |-> x2, kids |-> nw2]
           f == [fr EXCEPT !.node1 = b1, !.node2 = b2]
       IN CmpOutcome(f, PLC_CheckBase(b1, b2), AfterBlock(f, nw1))

\* the body of the loop over the words of a pool
PLC_Word ==
  /\ prog = "pools.cmp" /\ pc = "cmp" /\ fr.lvl = "leaf"
  /\ \E p \in CmpPairs("pword", fr.j) :
       LET l1 == p[1]
           l2 == p[2]
           w1 == PL_parseWord(rePWord(l1), l1)
           w2 == PL_parseWord(rePWord(l2), l2)
           f == [fr EXCEPT !.node1 = w1, !.node2 = w2,
                           !.printed = PLC_Printed(fr.j, w1, w2)]
       IN CmpOutcome(f, PLC_CheckWord(fr.j, w1, w2), AfterLeaf(f))

(* ------------------------------------------------------------------ *)
(* block_pools.py: the comparison of the two lists of blocks          *)
(* ------------------------------------------------------------------ *)
\* block headers declaring np pools
CmpBlkPoolLines(np) ==
  {BlkPLine(x, 0, np) : x \in 0..1}
    \cup {[BlkPLine(0, 0, np) EXCEPT !.llx = @ + 4],
          [BlkPLine(0, 0, np) EXCEPT !.urx = @ + 4],
          [BlkPLine(0, 0, np) EXCEPT !.llx = NaN]}

\* pool headers of index j; a pool a scan returns has a word
CmpPoolLines(j) ==
  {PoolLine(x, n) : x \in {j, j + 1}, n \in 1..MaxKids}
    \cup {[PoolLine(j, n) EXCEPT !.baseIdx = @ + 1] : n \in 1..MaxKids}

\* BPC_CheckBlock without the assertion on the headers
BPC_CheckBlock_NoHeader(b1, b2) ==
  FirstFailure(<< <<b1.kids = b2.kids, "block_pools.py:210">>,
                  <<b1.block.idx = b2.block.idx, "block_pools.py:219">>,
                  <<FloatEq(b1.block.llx, b2.block.llx), "block_pools.py:220">>,
                  <<FloatEq(b1.block.urx, b2.block.urx), "block_pools.py:221">>,
                  <<b1.block.nPools = b2.block.nPools, "block_pools.py:222">>,
                  <<b1.block.nPools = b1.kids, "block_pools.py:223">>,
                  <<b2.block.nPools = b2.kids, "block_pools.py:224">> >>,
               <<b1.header, b2.header>>)

\* the assertions on two aligned blocks
BPC_CheckBlock(b1, b2) ==
  FirstFailure(<< <<b1.header = b2.header, "block_pools.py:202">>,
                  <<b1.kids = b2.kids, "block_pools.py:210">>,
                  <<b1.block.idx = b2.block.idx, "block_pools.py:219">>,
                  <<FloatEq(b1.block.llx, b2.block.llx), "block_pools.py:220">>,
                  <<FloatEq(b1.block.urx, b2.block.urx), "block_pools.py:221">>,
                  <<b1.block.nPools = b2.block.nPools, "block_pools.py:222">>,
                  <<b1.block.nPools = b1.kids, "block_pools.py:223">>,
                  <<b2.block.nPools = b2.kids, "block_pools.py:224">> >>,
               <<b1.header, b2.header>>)

\* the assertions on two aligned pools; the words are only counted
BPC_CheckPool(j, p1, p2) ==
  FirstFailure(<< <<p1.pool.idx = p2.pool.idx, "block_pools.py:232">>,
                  <<p1.pool.baseIdx = p2.pool.baseIdx, "block_pools.py:233">>,
                  <<p1.pool.nWords = p2.pool.nWords, "block_pools.py:234">>,
                  <<p1.pool.line = p2.pool.line, "block_pools.py:235">>,
                  <<p1.pool.nWords = p1.kids, "block_pools.py:236">>,
                  <<p2.pool.nWords = p2.kids, "block_pools.py:237">> >>,
               <<j, p1, p2>>)

\* the two lists of blocks are in hand: the shorter length bounds the walk
BPC_Main ==
  /\ prog = "block_pools.cmp" /\ pc = "cmp" /\ fr.lvl = "main"
  /\ \E n1 \in 0..MaxKids, n2 \in 0..MaxKids :
       LET f == [fr EXCEPT !.len1 = 1, !.len2 = 1, !.n1 = n1, !.n2 = n2]
       IN CmpOutcome(f, Pass, AfterGroup(f, Min(n1, n2)))

\* the body of the loop over the blocks up to the loop over the pools; a
\* block a scan returns has the pools it declares. The line numbers that
\* parseBlock and parsePool keep are not compared and are left at 0
BPC_Block ==
  /\ prog = "block_pools.cmp" /\ pc = "cmp" /\ fr.lvl = "block"
  /\ \E h1 \in Headers, h2 \in Headers, np1 \in 0..MaxKids, np2 \in 0..MaxKids :
       \E l1 \in CmpBlkPoolLines(np1), l2 \in CmpBlkPoolLines(np2) :
         LET b1 == [header |-> h1, block |-> BP_parseBlock(0, reBlockP(l1), l1),
                    kids |-> np1]
             b2 == [header |-> h2, block |-> BP_parseBlock(0, reBlockP(l2), l2),
                    kids |-> np2]
             f == [fr EXCEPT !.node1 = b1, !.node2 = b2]
         IN CmpOutcome(f, BPC_CheckBlock(b1, b2), AfterBlock(f, np1))

\* the body of the loop over the pools of a block; a pool a scan returns
\* has the words it declares
BPC_Pool ==
  /\ prog = "block_pools.cmp" /\ pc = "cmp" /\ fr.lvl = "leaf"
  /\ \E l1 \in CmpPoolLines(fr.j), l2 \in CmpPoolLines(fr.j) :
       LET p1 == [pool |-> BP_parsePool(0, rePool(l1), l1), kids |-> l1.len,
                  line |-> l1]
           p2 == [pool |-> BP_parsePool(0, rePool(l2), l2), kids |-> l2.len,
                  line |-> l2]
           f == [fr EXCEPT !.node1 = p1, !.node2 = p2]
       IN CmpOutcome(f, BPC_CheckPool(fr.j, p1, p2), AfterLeaf(f))

CmpProgs == {"blocklist.cmp", "block_lines.cmp", "block_pools.cmp", "pools.cmp"}

InitCmp ==
  /\ prog \in CmpProgs
  /\ wantedTitle = None
  /\ fr = CmpFrame
  /\ pc = "cmp"
  /\ ret = None
  /\ err = NoErr

NextCmp ==
  \/ BLC_Main
  \/ BLC_Group
  \/ BLC_Block
  \/ BLC_Line
  \/ LNC_Main
  \/ LNC_Block
  \/ LNC_Line
  \/ BPC_Main
  \/ BPC_Block
  \/ BPC_Pool
  \/ PLC_Main
  \/ PLC_Base
  \/ PLC_Word

SpecCmp == InitCmp /\ [][NextCmp]_vars

(* ------------------------------------------------------------------ *)
(* What the claims speak of                                           *)
(* ------------------------------------------------------------------ *)
\* the step just taken read one more line of the file
ReadStep == pc = "scan" /\ fr'.i = fr.i + 1

\* the scan has run to the end of its input (it returned, or the code after
\* the loop raised)
EndedAtEOF ==
  \/ pc = "returned"
  \/ pc = "aborted" /\ err.at \in {"blocklist.py:105", "pools.py:107"}

\* the locals that make up the parser state: all but the loop variables
Parser(f) == [f EXCEPT !.i = 0, !.line = NoLine]

\* the nodes the scan has sealed so far
Sealed ==
  IF prog = "blocklist" THEN fr.blocksList
  ELSE IF prog = "pools" THEN fr.instances
  ELSE fr.blocks

\* C1: for every input on which a scan returns, every block of the returned
\* list has as many children as its header declared (lines= / pools=) and
\* every pool has as many words as its header declared (len= / n=).
C1_DeclaredCounts ==
  pc = "returned" =>
    /\ prog = "blocklist" =>
         \A g \in DOMAIN ret : \A b \in DOMAIN ret[g].blocks :
            Len(ret[g].blocks[b].lines) = ret[g].blocks[b].blk.line.nLines
    /\ prog = "block_lines" =>
         \A b \in DOMAIN ret : Len(ret[b].lines) = ret[b].block.nLines
    /\ prog = "block_pools" =>
         \A b \in DOMAIN ret :
            /\ Len(ret[b].pools) = ret[b].block.line.nPools
            /\ \A q \in DOMAIN ret[b].pools :
                  Len(ret[b].pools[q].words) = ret[b].pools[q].pool.line.len
    /\ prog = "pools" =>
         \A x \in DOMAIN ret : \A r \in DOMAIN ret[x].rots :
            \A q \in DOMAIN ret[x].rots[r].bases :
               Len(ret[x].rots[r].bases[q].words)
                  = ret[x].rots[r].bases[q].numWords

\* a scan returned a block holding a pool of two words
C1_Witness ==
  /\ pc = "returned" /\ prog = "block_pools"
  /\ \E b \in DOMAIN ret : \E q \in DOMAIN ret[b].pools :
        Len(ret[b].pools[q].words) = 2

\* C2 as claimed: a block header read by blocklist.scan while the open block
\* is short of its declared lines aborts the parse with an error that
\* identifies the short block (its index, the declared and the actual count).
C2_IdentifiesShortBlock ==
  [][(prog = "blocklist" /\ ReadStep /\ fr.state = 2
        /\ Len(fr.lines) < fr.nLines /\ fr'.line.k = "blk")
       => (pc' = "aborted"
             /\ err'.msg = <<fr.blk.hdr.idx, fr.nLines, Len(fr.lines)>>)]_vars

\* C2 as amended: that block header aborts the parse with the assertion of
\* parseLine, whose message carries the number and the text of the offending
\* header line; nothing is returned.
C2_AbortsAtOffendingLine ==
  [][(prog = "blocklist" /\ ReadStep /\ fr.state = 2
        /\ Len(fr.lines) < fr.nLines /\ fr'.line.k = "blk")
       => (pc' = "aborted" /\ err'.at = "blocklist.py:36"
             /\ err'.msg = <<fr.i + 1, fr'.line>> /\ ret' = None)]_vars

\* 'block 0 ... lines=1' directly followed by 'block 1 ...'
C2_Witness ==
  /\ prog = "blocklist" /\ pc = "aborted" /\ err.at = "blocklist.py:36"
  /\ fr.blk.hdr.idx = 0 /\ fr.nLines = 1 /\ fr.lines = <<>>
  /\ fr.line.k = "blk" /\ fr.line.idx = 1

\* a node that has read the last child its header declared but has not been
\* appended to its parent
PendingComplete ==
  \/ prog = "block_lines" /\ fr.state = 2 /\ fr.nLines > 0
       /\ Len(fr.lines) = fr.nLines
  \/ prog = "block_pools" /\ fr.state = 3 /\ Len(fr.words) = fr.nWords
  \/ prog = "pools" /\ fr.state = 3 /\ fr.numWords > 0
       /\ Len(fr.words) = fr.numWords
  \/ prog = "blocklist" /\ fr.state = 2 /\ fr.nLines > 0
       /\ Len(fr.lines) = fr.nLines

\* C3: a node is sealed in the step that reads the child line satisfying its
\* declared count, so when that line is the last non-blank line of the file
\* the node is in the value scan returns: no scan ends with a node that is
\* complete and not yet appended.
C3_SealedAtOnce == EndedAtEOF => ~PendingComplete

\* a group, block or pool is open and its declared count is not met
OpenUnmet ==
  \/ prog = "blocklist" /\ fr.state \in {1, 2}
       /\ (Len(fr.blocks) < fr.nBlocks
             \/ (fr.state = 2 /\ Len(fr.lines) < fr.nLines))
  \/ prog = "block_lines" /\ fr.state = 2 /\ Len(fr.lines) < fr.nLines
  \/ prog = "block_pools" /\ fr.state = 2 /\ Len(fr.pools) < fr.nPools
  \/ prog = "block_pools" /\ fr.state = 3 /\ Len(fr.words) < fr.nWords
  \/ prog = "pools" /\ fr.state = 3 /\ Len(fr.words) < fr.numWords

\* C4: when input ends while a node is open with an unmet count, scan
\* returns (it does not abort) and what it returns is marked truncated: it
\* is more than the bare list of the nodes sealed so far, which is also what
\* a complete file yields.
C4_TruncationMarked ==
  (EndedAtEOF /\ OpenUnmet) => (pc = "returned" /\ ret # Sealed)

\* a non-blank line that matches no header grammar has just been read
ReadJunk == ReadStep /\ fr'.line = JunkLine

\* C5 as claimed: in every parser state such a line leaves the parser state
\* and the collected nodes unchanged and does not abort the parse.
C5_JunkIgnoredEverywhere ==
  [][ReadJunk => (pc' = "scan" /\ Parser(fr') = Parser(fr))]_vars

\* a header is required next: the scan is past a group header and the node
\* it is in is not complete
HeaderRequired ==
  \/ prog = "blocklist" /\ fr.state \in {1, 2}
  \/ prog = "block_lines"
       /\ (fr.state = 1 \/ (fr.state = 2 /\ Len(fr.lines) # fr.nLines))
  \/ prog = "block_pools"
       /\ \/ fr.state = 1
          \/ fr.state = 2 /\ Len(fr.pools) # fr.nPools
          \/ fr.state = 3
               /\ (Len(fr.words) # fr.nWords \/ Len(fr.pools) + 1 # fr.nPools)

\* C5 as amended: while a group header is awaited and nothing is pending
\* (state 0; in pools.scan with no rotation collected) such a line leaves the
\* parser state and the collected nodes unchanged and does not abort; read by
\* blocklist.scan, block_lines.scan or block_pools.scan where a block, line,
\* pool or word header is required, it aborts the parse.
C5_JunkIgnoredWhenIdle ==
  [][ReadJunk =>
       /\ (fr.state = 0 /\ (prog = "pools" => fr.rots = <<>>))
            => (pc' = "scan" /\ Parser(fr') = Parser(fr))
       /\ HeaderRequired => (pc' = "aborted" /\ ret' = None)]_vars

\* an unrecognised line was skipped after a group had been collected
C5_Witness ==
  /\ prog = "blocklist" /\ pc = "scan" /\ fr.line = JunkLine
  /\ fr.state = 0 /\ Len(fr.blocksList) = 1

\* C6: blocklist.scan returns one entry per completed group of the file: when
\* it returns, no group whose declared block count is satisfied is missing
\* from the result.
C6_NoCompletedGroupDropped ==
  (prog = "blocklist" /\ pc = "returned") =>
     ~(fr.state = 1 /\ Len(fr.blocks) = fr.nBlocks)

\* C7: with a wanted title, a group header carrying another title is
\* discarded and the scan goes on to the rest of the file.
C7_OtherTitleSkipped ==
  [][(prog = "blocklist" /\ ReadStep /\ fr.state = 0 /\ wantedTitle # None
        /\ fr'.line.k = "grp" /\ fr'.line.title # wantedTitle)
       => (pc' = "scan" /\ Parser(fr') = Parser(fr))]_vars

\* the blocks of group g carry the indices 0, 1, ... below the declared count
Contiguous(blocks, declared) ==
  \A k \in DOMAIN blocks :
     /\ blocks[k].blk.line.idx = k - 1
     /\ blocks[k].blk.line.idx < declared

\* C8: in every group blocklist.scan returns, and in the group it is
\* collecting, the k-th block carries index k and every index is below the
\* declared block count of the group.
C8_IndicesContiguous ==
  prog = "blocklist" =>
    /\ \A g \in DOMAIN fr.blocksList :
          Contiguous(fr.blocksList[g].blocks, fr.blocksList[g].titleLine.n)
    /\ fr.state # 0 => Contiguous(fr.blocks, fr.nBlocks)
    /\ pc = "returned" => ret = fr.blocksList

\* a group of two blocks was returned
C8_Witness ==
  /\ prog = "blocklist" /\ pc = "returned"
  /\ \E g \in DOMAIN ret : Len(ret[g].blocks) = 2

(* ------------------------------------------------------------------ *)
(* The comparisons                                                    *)
(* ------------------------------------------------------------------ *)
\* the step compares two aligned lines or words
LeafStep == pc = "cmp" /\ fr.lvl = "leaf"

\* two aligned leaves, given by their header lines, disagree in a field the
\* comparison of program p looks at
Disagree(p, x, y) ==
  IF p = "blocklist.cmp"
  THEN \/ Abs(x.llx - y.llx) > TOL
       \/ Abs(x.urx - y.urx) > TOL
       \/ Abs(x.base - y.base) > TOL
       \/ x.fontsize # y.fontsize
       \/ Without(x.text, " ") # Without(y.text, " ")
  ELSE IF p = "pools.cmp"
  THEN \/ x.base # y.base
       \/ x.llx # y.llx
       \/ x.urx # y.urx
       \/ x.fontsize # y.fontsize
       \/ (exclude(x.text) = exclude(y.text) /\ x.text # y.text)
  ELSE IF p = "block_pools.cmp"
  THEN x # y
  ELSE \/ x.idx # y.idx
       \/ x.llx # y.llx
       \/ x.fontsize # y.fontsize

LeafSites ==
  {"blocklist.py:158", "blocklist.py:159", "blocklist.py:162",
   "blocklist.py:163", "blocklist.py:164", "block_lines.py:199",
   "block_lines.py:201", "block_lines.py:203", "block_pools.py:232",
   "block_pools.py:233", "block_pools.py:234", "pools.py:151", "pools.py:152",
   "pools.py:153", "pools.py:154", "pools.py:160"}

\* C9 as stated: a pair of aligned leaves that disagree does not end the
\* comparison, which runs on to report the disagreements that follow.
C9_DisagreementsAllReported ==
  [][(LeafStep /\ Disagree(prog, fr'.node1.line, fr'.node2.line))
       => pc' # "aborted"]_vars

\* C9, amended: the comparison ends at the first pair of aligned leaves that
\* disagree in a compared field: the step that compares them raises the
\* assertion error of a leaf assertion at that pair, and no step follows an
\* assertion error, so that no later disagreement is ever reported.
C9_StopsAtFirstDisagreement ==
  [][/\ pc = "cmp"
     /\ (LeafStep /\ Disagree(prog, fr'.node1.line, fr'.node2.line))
          => /\ pc' = "aborted"
             /\ err'.at \in LeafSites
             /\ fr'.g = fr.g /\ fr'.i = fr.i /\ fr'.j = fr.j]_vars

\* the first of two lines of the first of two groups is beyond tolerance in
\* base: the comparison has stopped there, the second line and the second
\* group unread
C9_Witness ==
  /\ prog = "blocklist.cmp" /\ pc = "aborted"
  /\ err.at = "blocklist.py:162"
  /\ fr.len1 = 2 /\ fr.g = 0 /\ fr.m = 2 /\ fr.j = 0
  /\ fr.node1.line.base + 16 = fr.node2.line.base

\* the two lengths that the step from locals f to locals h has read
Lengths(p, f, h) ==
  IF f.lvl = "main" /\ p = "blocklist.cmp" THEN <<h.len1, h.len2>>
  ELSE IF f.lvl \in {"main", "group"} THEN <<h.n1, h.n2>>
  ELSE <<h.node1.kids, h.node2.kids>>

\* the step reads the lengths of two aligned lists, and they differ
LengthsDiffer ==
  /\ pc = "cmp" /\ fr.lvl \in {"main", "group", "block"}
  /\ Lengths(prog, fr, fr')[1] # Lengths(prog, fr, fr')[2]

\* the lists are lists of blocks, whose lengths no assertion compares
BlocksLevel ==
  \/ prog = "blocklist.cmp" /\ fr.lvl = "group"
  \/ prog \in {"block_lines.cmp", "block_pools.cmp"} /\ fr.lvl = "main"

\* C10 as stated: two aligned nodes with different numbers of children do
\* not end the comparison.
C10_LengthMismatchNeverFatal ==
  [][LengthsDiffer => pc' # "aborted"]_vars

\* C10, amended: where two aligned lists of blocks differ in length no
\* assertion fails on the difference and the comparison walks exactly the
\* blocks below the shorter length; where the lists of groups, of lines of
\* a block, of pools of a rotation or of words of a pool differ in length,
\* the comparison ends with an assertion error.
C10_OnlyBlockListsTruncate ==
  [][/\ (LengthsDiffer /\ BlocksLevel)
          => /\ err' # NoErr => err'.at \in {"blocklist.py:181"}
             /\ err' = NoErr
                  => fr'.n = IF fr'.n1 < fr'.n2 THEN fr'.n1 ELSE fr'.n2
     /\ (LengthsDiffer /\ ~BlocksLevel) => pc' = "aborted"
     /\ fr'.lvl \in {"block", "leaf"}
          => fr'.i < fr'.n /\ fr'.n <= fr'.n1 /\ fr'.n <= fr'.n2
     /\ (fr.lvl \in {"block", "leaf"} /\ fr'.lvl \notin {"block", "leaf"}
           /\ pc' # "aborted")
          => fr.i + 1 = fr.n
     /\ fr'.i # fr.i => fr'.i = fr.i + 1 \/ fr'.i = 0]_vars

\* the first group has two blocks on the left and one on the right: the one
\* aligned pair of blocks has been walked and the comparison is at the
\* second group
C10_Witness ==
  /\ prog = "blocklist.cmp" /\ pc = "cmp" /\ err = NoErr
  /\ fr.lvl = "group" /\ fr.g = 1
  /\ fr.n1 = 2 /\ fr.n2 = 1 /\ fr.n = 1 /\ fr.i = 0

(* ------------------------------------------------------------------ *)
(* The comparisons: numbers                                           *)
(* ------------------------------------------------------------------ *)
\* two numbers less than the tolerance apart / more than the tolerance apart
Within(a, b) == a # NaN /\ b # NaN /\ Abs(a - b) < TOL
Beyond(a, b) == a # NaN /\ b # NaN /\ Abs(a - b) > TOL

NumFields == {"base", "llx", "urx", "lly", "ury", "fontsize"}

\* the assertions on the numbers of two aligned lines or words
LeafNumSites ==
  {"blocklist.py:158", "blocklist.py:159", "blocklist.py:162",
   "blocklist.py:163", "pools.py:151", "pools.py:152", "pools.py:153",
   "pools.py:154"}

\* the step compares two aligned lines of blocklist.py or words of pools.py
NumLeafStep == LeafStep /\ prog \in {"blocklist.cmp", "pools.cmp"}

NumSpan == 30

Nums == 1800..(1800 + NumSpan)

InitEqual ==
  /\ prog \in {"blocklist.equal", "blocks.equal"}
  /\ wantedTitle = None
  /\ fr \in [x1 : Nums \cup {NaN}, x2 : Nums \cup {NaN}]
  /\ pc = "call"
  /\ ret = None
  /\ err = NoErr

\* 'return abs(x1 - x2) < TOL'
EQ_Call ==
  /\ prog \in {"blocklist.equal", "blocks.equal"} /\ pc = "call"
  /\ ret' = equal(fr.x1, fr.x2)
  /\ pc' = "done"
  /\ UNCHANGED <<prog, wantedTitle, fr, err>>

NextEqual == EQ_Call

SpecEqual == InitEqual /\ [][NextEqual]_vars

\* C12: equal(x1, x2) is true exactly when the two numbers, as written in
\* the trace, are less than 0.1 apart: false at 0.1 apart and true below.
C12_StrictAtBoundary ==
  (pc = "done" /\ fr.x1 # NaN /\ fr.x2 # NaN)
    => (ret <=> Abs(fr.x1 - fr.x2) < TOL)

(* ------------------------------------------------------------------ *)
(* The comparisons: labels                                            *)
(* ------------------------------------------------------------------ *)
\* the step reads two aligned nodes that carry a label: two groups of
\* blocklist.py, two blocks of block_lines.py or block_pools.py
LabelStep ==
  /\ pc = "cmp"
  /\ \/ prog = "blocklist.cmp" /\ fr.lvl = "group"
     \/ prog \in {"block_lines.cmp", "block_pools.cmp"} /\ fr.lvl = "block"

\* the label of such a node
Label(node) ==
  IF "title" \in DOMAIN node THEN node.title ELSE node.header

LabelSites == {"blocklist.py:181", "block_lines.py:173", "block_pools.py:202"}

\* C13: when two aligned groups or blocks carry different labels, the step
\* that reads them fails the assertion on the labels, the first one made on
\* the pair, and the comparison ends there: nothing below the pair is read.
C13_LabelMismatchFailsFirst ==
  [][(LabelStep /\ Label(fr'.node1) # Label(fr'.node2))
       => /\ pc' = "aborted"
          /\ err'.at \in LabelSites
          /\ fr'.lvl = fr.lvl /\ fr'.g = fr.g /\ fr'.i = fr.i]_vars

\* the second pair of blocks of block_pools.py differs in the header and in
\* the number of pools: the assertion on the header has failed
C13_Witness ==
  /\ prog = "block_pools.cmp" /\ pc = "aborted"
  /\ err.at = "block_pools.py:202"
  /\ fr.lvl = "block" /\ fr.i = 1
  /\ fr.node1.header # fr.node2.header
  /\ fr.node1.kids # fr.node2.kids

(* ------------------------------------------------------------------ *)
(* text.py: the comparison of the texts shown                         *)
(* ------------------------------------------------------------------ *)
\* str.lower() on the letters of Texts; every other character is kept
LowerChar(c) ==
  IF c = "P" THEN "p" ELSE IF c = "E" THEN "e" ELSE IF c = "R" THEN "r"
  ELSE IF c = "S" THEN "s" ELSE IF c = "X" THEN "x" ELSE c

\* text.lower()
lower(text) == [k \in DOMAIN text |-> LowerChar(text[k])]

\* locals of the comparison; map1 and map2 are keyed by 0..i-1 and held as
\* sequences, rows is what the last loop prints
TX_Frame ==
  [lvl |-> "main", n1 |-> 0, n2 |-> 0, n |-> 0, i |-> 0, badIds |-> <<>>,
   caseBadIds |-> {}, map1 |-> <<>>, map2 |-> <<>>, rows |-> <<>>]

\* TX_Compare with bad computed on the lower-cased texts
TX_Compare_CaseBlind(t1, t2) ==
  [bad |-> lower(t1) # lower(t2), caseBad |-> lower(t1) # lower(t2)]

\* 'bad = t1 != t2' and 'caseBad = t1.lower() != t2.lower()'
TX_Compare(t1, t2) ==
  [bad |-> t1 # t2, caseBad |-> lower(t1) # lower(t2)]

InitText ==
  /\ prog = "text.py"
  /\ wantedTitle = None
  /\ fr = TX_Frame
  /\ pc = "cmp"
  /\ ret = None
  /\ err = NoErr

\* the two lists of matches are in hand
TX_Main ==
  /\ prog = "text.py" /\ pc = "cmp" /\ fr.lvl = "main"
  /\ \E n1 \in 0..MaxKids, n2 \in 0..MaxKids :
       fr' = [fr EXCEPT !.n1 = n1, !.n2 = n2, !.n = Min(n1, n2),
                        !.lvl = IF Min(n1, n2) > 0 THEN "loop" ELSE "report"]
  /\ UNCHANGED <<prog, wantedTitle, pc, ret, err>>

\* the body of the loop over the aligned matches
TX_Loop ==
  /\ prog = "text.py" /\ pc = "cmp" /\ fr.lvl = "loop"
  /\ \E t1 \in Texts, t2 \in Texts :
       LET c == TX_Compare(t1, t2) IN
       fr' = [fr EXCEPT
                !.badIds = IF c.bad THEN Append(@, fr.i) ELSE @,
                !.caseBadIds = IF c.caseBad THEN @ \cup {fr.i} ELSE @,
                !.map1 = Append(@, t1),
                !.map2 = Append(@, t2),
                !.i = fr.i + 1,
                !.lvl = IF fr.i + 1 < fr.n THEN "loop" ELSE "report"]
  /\ UNCHANGED <<prog, wantedTitle, pc, ret, err>>

\* the loop over badIds that prints the mismatches
TX_Report ==
  /\ prog = "text.py" /\ pc = "cmp" /\ fr.lvl = "report"
  /\ fr' = [fr EXCEPT
              !.rows = [k \in 1..Len(fr.badIds) |->
                          <<fr.badIds[k], fr.map1[fr.badIds[k] + 1],
                            fr.map2[fr.badIds[k] + 1],
                            IF fr.badIds[k] \in fr.caseBadIds
                            THEN "******" ELSE "">>],
              !.lvl = "end"]
  /\ pc' = "done"
  /\ UNCHANGED <<prog, wantedTitle, ret, err>>

NextText == TX_Main \/ TX_Loop \/ TX_Report

SpecText == InitText /\ [][NextText]_vars

\* the indices held by a list
Indices(seq) == {seq[k] : k \in DOMAIN seq}

\* C14: every aligned index compared so far is in badIds exactly when the
\* two texts differ, and in caseBadIds exactly when they differ after
\* lower-casing; no other index is in either.
C14_BadIdsExactCaseBadIdsFolded ==
  /\ Indices(fr.badIds) \cup fr.caseBadIds \subseteq 0..(fr.i - 1)
  /\ fr.i <= fr.n /\ fr.n <= fr.n1 /\ fr.n <= fr.n2
  /\ \A k \in 0..(fr.i - 1) :
       /\ k \in Indices(fr.badIds) <=> fr.map1[k + 1] # fr.map2[k + 1]
       /\ k \in fr.caseBadIds
            <=> lower(fr.map1[k + 1]) # lower(fr.map2[k + 1])

\* "PERS" against "pers" is a mismatch printed without the marker of a
\* mismatch that remains when case is ignored
C14_Witness ==
  /\ pc = "done" /\ prog = "text.py"
  /\ \E k \in DOMAIN fr.rows :
       /\ fr.rows[k][2] = <<"P", "E", "R", "S">>
       /\ fr.rows[k][3] = <<"p", "e", "r", "s">>
       /\ fr.rows[k][4] = ""
       /\ fr.rows[k][1] \notin fr.caseBadIds

(* ------------------------------------------------------------------ *)
(* The comparisons: texts                                             *)
(* ------------------------------------------------------------------ *)
Whitespace == {" ", "\t"}
IsSpace(c) == c = " "
IsWhitespace(c) == c \in Whitespace
NotSpace(c) == ~IsSpace(c)
NotWhitespace(c) == ~IsWhitespace(c)

\* the step compares the texts of two aligned lines of blocklist.py: the
\* assertions on their numbers have passed
LineTextStep ==
  LeafStep /\ prog = "blocklist.cmp" /\ err'.at \notin LeafNumSites

\* C15 as stated: the texts of two aligned lines pass exactly when they
\* are the same once all whitespace, tabs included, is removed from both.
C15_AllWhitespaceRemoved ==
  [][LineTextStep
       => (err' = Pass
             <=> SelectSeq(fr'.node1.line.text, NotWhitespace)
                   = SelectSeq(fr'.node2.line.text, NotWhitespace))]_vars

\* C15, amended: the texts of two aligned lines pass exactly when they are
\* the same once every space character is removed from both; a tab, like
\* any other character, is kept and compared.
C15_OnlySpacesRemoved ==
  [][LineTextStep
       => /\ err' = Pass
               <=> SelectSeq(fr'.node1.line.text, NotSpace)
                     = SelectSeq(fr'.node2.line.text, NotSpace)
          /\ err' # Pass => err'.at = "blocklist.py:164"]_vars

\* "PERS" against "P<tab>ERS" has failed the assertion on the texts
C15_Witness ==
  /\ prog = "blocklist.cmp" /\ pc = "aborted" /\ err.at = "blocklist.py:164"
  /\ fr.node1.line.text = <<"P", "E", "R", "S">>
  /\ fr.node2.line.text = <<"P", "\t", "E", "R", "S">>

\* a noise marker is in the text
Noisy(text) == \E k \in DOMAIN text : text[k] \in {"\\x13", "\\x19"}

\* the step compares the texts of two aligned words of pools.py: the
\* assertions on their numbers have passed
WordTextStep ==
  LeafStep /\ prog = "pools.cmp" /\ err'.at \notin LeafNumSites

SelfStep ==
  /\ prog \in CmpProgs /\ pc = "cmp"
  /\ fr'.len1 = fr'.len2 /\ fr'.n1 = fr'.n2 /\ fr'.llx1 = fr'.llx2
  /\ fr.lvl # "main" => fr'.node1 = fr'.node2

\* a number of the node compared with itself is the float nan
SelfNaN ==
  \/ /\ fr.lvl = "leaf" /\ prog # "block_pools.cmp"
     /\ \E fld \in NumFields : fr'.node1.line[fld] = NaN
  \/ /\ fr.lvl = "block" /\ prog = "blocklist.cmp"
     /\ (fr'.node1.blk.hdr.llx = NaN \/ fr'.node1.blk.hdr.urx = NaN)
  \/ /\ fr.lvl = "block" /\ prog \in {"block_lines.cmp", "block_pools.cmp"}
     /\ (fr'.node1.block.llx = NaN \/ fr'.node1.block.urx = NaN)

\* C17 as stated: a comparison of a parsed trace with itself fails no
\* assertion: every step that compares a node with itself passes.
C17_SelfCompareNoDivergence ==
  [][SelfStep => err' = Pass]_vars

\* what holds of C17: a node none of whose numbers is nan passes the
\* comparison with itself, and a failure of a node against itself is the
\* failure of an assertion on a number
C17_SelfCompareOfNumbersPasses ==
  [][/\ (SelfStep /\ ~SelfNaN) => err' = Pass
     /\ (SelfStep /\ err' # Pass)
          => err'.at \in LeafNumSites \cup {"block_lines.py:201",
                                            "block_pools.py:220"}]_vars

\* blocklist.py, pools.py and text.py side by side
InitCompare == InitCmp \/ InitText

NextCompare == NextCmp \/ NextText

SpecCompare == InitCompare /\ [][NextCompare]_vars

\* the step is one of validateBlocks and its caller, or of compareInstance
SwapStep == prog \in {"blocklist.cmp", "pools.cmp"} /\ pc = "cmp"

\* the outcome of the assertions of the step when the two traces are
\* exchanged: what was read on the right is on the left
SwappedCheck ==
  IF prog = "blocklist.cmp"
  THEN IF fr.lvl = "main" THEN BLC_CheckLists(fr'.len2, fr'.len1)
       ELSE IF fr.lvl = "group" THEN BLC_CheckGroup(fr'.node2, fr'.node1)
       ELSE IF fr.lvl = "block" THEN BLC_CheckBlock(fr'.node2, fr'.node1)
       ELSE BLC_CheckLine(fr.j, fr'.node2, fr'.node1)
  ELSE IF fr.lvl = "main" THEN PLC_CheckBases(fr'.n2, fr'.n1)
       ELSE IF fr.lvl = "block" THEN PLC_CheckBase(fr'.node2, fr'.node1)
       ELSE PLC_CheckWord(fr.j, fr'.node2, fr'.node1)

\* the step of text.py compares two aligned texts
TextStep == prog = "text.py" /\ fr.lvl = "loop"

\* C18: exchanging the two traces changes no outcome. In blocklist.py and
\* pools.py the assertions of a step fail on the exchanged nodes exactly when
\* they fail on the nodes, at the same assertion, and a step that passes
\* walks as many children counted from either side, so that the first node
\* to fail is the same. In text.py an index enters badIds and caseBadIds
\* exactly when it does for the exchanged texts.
C18_SwapKeepsDivergences ==
  [][/\ SwapStep
          => /\ SwappedCheck = Pass <=> err' = Pass
             /\ err' # Pass => SwappedCheck.at = err'.at
             /\ (err' = Pass /\ fr.lvl \in {"main", "group"}
                   /\ fr'.lvl = "block" /\ fr'.i = 0)
                  => fr'.n = Min(fr'.n2, fr'.n1)
             /\ (err' = Pass /\ fr.lvl = "block")
                  => fr'.lvl = "leaf" /\ fr'.m = fr'.node2.kids
     /\ TextStep
          => LET c == TX_Compare(fr'.map2[fr.i + 1], fr'.map1[fr.i + 1])
             IN /\ fr.i \in Indices(fr'.badIds) <=> c.bad
                /\ fr.i \in fr'.caseBadIds <=> c.caseBad
                /\ fr'.n = Min(fr'.n2, fr'.n1)]_vars

\* two lines of blocklist.py whose bases are more than 0.1 apart, the
\* smaller on the left, have failed the assertion on base
C18_Witness ==
  /\ prog = "blocklist.cmp" /\ pc = "aborted" /\ fr.lvl = "leaf"
  /\ err.at = "blocklist.py:162"
  /\ fr.node1.line.base # NaN
  /\ fr.node2.line.base - fr.node1.line.base > TOL

(* ------------------------------------------------------------------ *)
(* index.py, base2.py, newmaxbase.py, lines.py: the per-index reports *)
(* ------------------------------------------------------------------ *)
\* the largest number of matches of a side
MaxRows == 8

\* 'elif i > badI + 5'
Window == 5

RP_Progs == {"index.py", "base2.py", "newmaxbase.py", "lines.py"}

\* the entries that the scan of a program returns, without the line number
\* and the line: (cnt, poolIdx, startIdx) for index.py, (minBase, maxBase,
\* cnt, dnt) for base2.py, whose scan reads both bases from the same group,
\* (minBase, maxBase, cnt) for newmaxbase.py and (start, pool) for lines.py
RP_Entries(p) ==
  IF p = "index.py"
  THEN {<<1, 2, 3>>, <<2, 2, 3>>, <<1, 3, 3>>, <<1, 2, 4>>}
  ELSE IF p = "base2.py"
  THEN {<<1814, 1814, 1, 2>>, <<1824, 1824, 1, 2>>, <<1814, 1814, 2, 2>>,
        <<1814, 1814, 1, 3>>, <<NaN, NaN, 1, 2>>}
  ELSE IF p = "newmaxbase.py"
  THEN {<<1814, 1824, 1>>, <<1815, 1824, 1>>, <<1814, 1825, 1>>,
        <<1814, 1824, 2>>, <<NaN, 1824, 1>>}
  ELSE {<<188, 188>>, <<189, 188>>, <<188, 189>>}

\* 'bad = ...' of the program, != on floats and ints
RP_Bad(p, e1, e2) ==
  IF p = "index.py"
  THEN e1[1] # e2[1] \/ e1[2] # e2[2] \/ e1[3] # e2[3]
  ELSE IF p = "base2.py"
  THEN \/ ~FloatEq(e1[1], e2[1]) \/ ~FloatEq(e1[2], e2[2])
       \/ e1[3] # e2[3] \/ e1[4] # e2[4]
  ELSE IF p = "newmaxbase.py"
  THEN ~FloatEq(e1[1], e2[1]) \/ ~FloatEq(e1[2], e2[2]) \/ e1[3] # e2[3]
  ELSE e1[1] # e2[1] \/ e1[2] # e2[2]

\* i > badI + 5 in place of the same with >=
RP_Break_OneEarly(i, badI) == i >= badI + Window

\* 'if badI < 0: ... elif i > badI + 5: break', after badI is updated: the
\* elif is not reached in the iteration that sets badI
RP_Break(i, badI) == i > badI + Window

\* locals of the report: bads holds the flag bad of every iteration made,
\* rows the rows printed
RP_Frame ==
  [lvl |-> "main", n1 |-> 0, n2 |-> 0, n |-> 0, i |-> 0, badI |-> -1,
   bads |-> <<>>, rows |-> <<>>]

InitReport ==
  /\ prog \in RP_Progs
  /\ wantedTitle = None
  /\ fr = RP_Frame
  /\ pc = "cmp"
  /\ ret = None
  /\ err = NoErr

\* the two lists of matches are in hand: 'n = min(...)' and 'badI = -1'
RP_Main ==
  /\ prog \in RP_Progs /\ pc = "cmp" /\ fr.lvl = "main"
  /\ \E n1 \in 0..MaxRows, n2 \in 0..MaxRows :
       /\ fr' = [fr EXCEPT !.n1 = n1, !.n2 = n2, !.n = Min(n1, n2),
                           !.lvl = IF Min(n1, n2) > 0 THEN "loop" ELSE "end"]
       /\ pc' = IF Min(n1, n2) > 0 THEN "cmp" ELSE "done"
  /\ UNCHANGED <<prog, wantedTitle, ret, err>>

\* one iteration of the loop: the row is printed, then badI is set or the
\* loop is left
RP_Row ==
  /\ prog \in RP_Progs /\ pc = "cmp" /\ fr.lvl = "loop"
  /\ \E e1 \in RP_Entries(prog), e2 \in RP_Entries(prog) :
       LET bad == RP_Bad(prog, e1, e2)
           stop == fr.badI >= 0 /\ RP_Break(fr.i, fr.badI)
           last == stop \/ fr.i + 1 >= fr.n
       IN /\ fr' = [fr EXCEPT
                      !.rows = Append(@, <<fr.i, IF bad THEN "******" ELSE "">>),
                      !.bads = Append(@, bad),
                      !.badI = IF fr.badI < 0 /\ bad THEN fr.i ELSE @,
                      !.i = IF stop THEN @ ELSE @ + 1,
                      !.lvl = IF last THEN "end" ELSE "loop"]
          /\ pc' = IF last THEN "done" ELSE "cmp"
  /\ UNCHANGED <<prog, wantedTitle, ret, err>>

NextReport == RP_Main \/ RP_Row

SpecReport == InitReport /\ [][NextReport]_vars

\* the indices at which the entries of the two sides diverged
BadRows == {k \in 0..(Len(fr.bads) - 1) : fr.bads[k + 1]}

\* the first of them
FirstBad == CHOOSE b \in BadRows : \A k \in BadRows : b <= k

\* the index of the last row of a finished report: six after the first
\* divergence, or the last index when there is no divergence or no such row
LastRow ==
  IF BadRows = {} THEN fr.n - 1 ELSE Min(fr.n - 1, FirstBad + Window + 1)

\* C19: the rows printed are those of the indices 0, 1, 2, ... in order, and
\* when the report is finished they are exactly the rows of 0 .. min(n - 1,
\* b + 6), b the first index at which the entries diverge, or all n rows
\* when none does.
C19_ReportStopsSixAfterFirstDivergence ==
  prog \in RP_Progs
    => /\ \A k \in DOMAIN fr.rows : fr.rows[k][1] = k - 1
       /\ Len(fr.rows) = Len(fr.bads)
       /\ fr.n = Min(fr.n1, fr.n2)
       /\ pc = "done" => Len(fr.rows) = LastRow + 1

\* a finished report on eight aligned entries that diverge at index 0 has
\* printed the rows of 0 .. 6 and not the eighth
C19_Witness ==
  /\ prog \in RP_Progs /\ pc = "done"
  /\ fr.n = 8 /\ fr.badI = 0 /\ fr.bads[1]
  /\ Len(fr.rows) = 7

(* ------------------------------------------------------------------ *)
(* words.py: the aligned words of two logs and their permutation      *)
(* ------------------------------------------------------------------ *)
\* the largest number of matches of a side
MaxWords == 3

\* the words that a scan returns at index i: (idx, text, base), the base in
\* thousandths; none is half way between two hundredths
WD_Entries(i) ==
  {[idx |-> i, text |-> "a", base |-> 18140],
   [idx |-> i, text |-> "b", base |-> 18140],
   [idx |-> i, text |-> "c", base |-> 18140],
   [idx |-> i, text |-> "a", base |-> 18142]}

\* '(%5.2f %s)' % (b, t): the base rounded to hundredths, and the text
WD_Part(w) == <<(w.base + 5) \div 10, w.text>>

\* 'bad = i1 != i2 or t1 != t2 or b1 != b2'
WD_Bad(w1, w2) == w1.idx # w2.idx \/ w1.text # w2.text \/ w1.base # w2.base

\* the keys of {v: k for k, v in map.items()}
WD_Keys(map) == {map[x] : x \in DOMAIN map}

\* {v: k for k, v in map.items()}[key]: the last index that holds the key
WD_Pam(map, key) ==
  CHOOSE x \in 0..(Len(map) - 1) :
    /\ map[x + 1] = key
    /\ \A y \in 0..(Len(map) - 1) : map[y + 1] = key => y <= x

\* locals of words.py; map1 and map2 are keyed by 0..i-1 and held as
\* sequences, edges is a function on the indices it is defined for, k is
\* the place in badIds of the loop that runs, j and cycle are those of the
\* loop that follows the edges
WD_Frame ==
  [lvl |-> "load", n1 |-> 0, n2 |-> 0, n |-> 0, i |-> 0, badIds |-> <<>>,
   map1 |-> <<>>, map2 |-> <<>>, edges |-> <<>>, k |-> 1, j |-> 0,
   cycle |-> <<>>, cycles |-> <<>>]

InitWords ==
  /\ prog = "words.py"
  /\ wantedTitle = None
  /\ fr = WD_Frame
  /\ pc = "cmp"
  /\ ret = None
  /\ err = NoErr

\* the locals when the loop over the aligned words is over: the loops over
\* badIds run if there is a bad index
WD_AfterLoop(f) ==
  IF f.badIds = <<>> THEN [f EXCEPT !.lvl = "end"]
  ELSE [f EXCEPT !.lvl = "edges", !.k = 1]

\* the locals at the head of the iteration k of the loop that builds the
\* cycles: 'j = i' and 'cycle = [j]'
WD_CycleHead(f, k) ==
  IF k > Len(f.badIds) THEN [f EXCEPT !.lvl = "end", !.k = k]
  ELSE [f EXCEPT !.lvl = "cycles", !.k = k, !.j = f.badIds[k],
                 !.cycle = <<f.badIds[k]>>]

\* 're.compile' of reCpp, whose pattern holds the escape \c: Python 3.7 and
\* later raise re.error for it, earlier ones take it for the letter c
WD_Compile ==
  /\ prog = "words.py" /\ pc = "cmp" /\ fr.lvl = "load"
  /\ \/ /\ fr' = fr
        /\ err' = Stop("words.py:13", <<"re.error">>)
        /\ pc' = "aborted"
     \/ /\ fr' = [fr EXCEPT !.lvl = "main"]
        /\ UNCHANGED <<pc, err>>
  /\ UNCHANGED <<prog, wantedTitle, ret>>

\* the two lists of matches are in hand
WD_Main ==
  /\ prog = "words.py" /\ pc = "cmp" /\ fr.lvl = "main"
  /\ \E n1 \in 0..MaxWords, n2 \in 0..MaxWords :
       LET f == [fr EXCEPT !.n1 = n1, !.n2 = n2, !.n = Min(n1, n2)]
           after == IF f.n > 0 THEN [f EXCEPT !.lvl = "loop"]
                    ELSE WD_AfterLoop(f)
       IN /\ fr' = after
          /\ pc' = IF after.lvl = "end" THEN "done" ELSE "cmp"
  /\ UNCHANGED <<prog, wantedTitle, ret, err>>

\* the body of the loop over the aligned words
WD_Loop ==
  /\ prog = "words.py" /\ pc = "cmp" /\ fr.lvl = "loop"
  /\ \E w1 \in WD_Entries(fr.i), w2 \in WD_Entries(fr.i) :
       LET f == [fr EXCEPT
                   !.badIds = IF WD_Bad(w1, w2) THEN Append(@, fr.i) ELSE @,
                   !.map1 = Append(@, WD_Part(w1)),
                   !.map2 = Append(@, WD_Part(w2)),
                   !.i = fr.i + 1]
           after == IF f.i < f.n THEN f ELSE WD_AfterLoop(f)
       IN /\ fr' = after
          /\ pc' = IF after.lvl = "end" THEN "done" ELSE "cmp"
  /\ UNCHANGED <<prog, wantedTitle, ret, err>>

\* the body of the loop that builds edges: 'j1 = pam2[k1]' raises KeyError
\* when no word of the right side has the key
WD_Edge ==
  /\ prog = "words.py" /\ pc = "cmp" /\ fr.lvl = "edges"
  /\ LET i == fr.badIds[fr.k]
         k1 == fr.map1[i + 1]
     IN IF k1 \notin WD_Keys(fr.map2)
        THEN /\ fr' = fr
             /\ err' = Stop("words.py:82", <<"KeyError", k1>>)
             /\ pc' = "aborted"
        ELSE LET j1 == WD_Pam(fr.map2, k1)
                 v1 == fr.map2[j1 + 1]
                 f == [fr EXCEPT !.edges = (i :> j1) @@ @]
                 e == FirstFailure(<< <<v1 = k1, "words.py:88">> >>, <<>>)
             IN /\ fr' = IF e # Pass THEN f
                         ELSE IF fr.k < Len(fr.badIds)
                         THEN [f EXCEPT !.k = fr.k + 1]
                         ELSE WD_CycleHead(f, 1)
                /\ err' = e
                /\ pc' = IF e # Pass THEN "aborted" ELSE "cmp"
  /\ UNCHANGED <<prog, wantedTitle, ret>>

\* one iteration of 'while True': 'j = edges[j]' raises KeyError when edges
\* has no entry for j. A cycle longer than the number of words has come
\* back to an index other than i, and the loop goes round for ever: the
\* model follows it no further
WD_Follow ==
  /\ prog = "words.py" /\ pc = "cmp" /\ fr.lvl = "cycles"
  /\ Len(fr.cycle) <= fr.n
  /\ IF fr.j \notin DOMAIN fr.edges
     THEN /\ fr' = fr
          /\ err' = Stop("words.py:96", <<"KeyError", fr.j>>)
          /\ pc' = "aborted"
     ELSE LET j == fr.edges[fr.j]
              after == IF j = fr.badIds[fr.k]
                       THEN WD_CycleHead(
                              [fr EXCEPT !.cycles = Append(@, fr.cycle)],
                              fr.k + 1)
                       ELSE [fr EXCEPT !.j = j, !.cycle = Append(@, j)]
          IN /\ fr' = after
             /\ err' = NoErr
             /\ pc' = IF after.lvl = "end" THEN "done" ELSE "cmp"
  /\ UNCHANGED <<prog, wantedTitle, ret>>

NextWords == WD_Compile \/ WD_Main \/ WD_Loop \/ WD_Edge \/ WD_Follow

SpecWords == InitWords /\ [][NextWords]_vars

\* how many of the indices of a map hold the key
Count(map, key) == Cardinality({x \in DOMAIN map : map[x] = key})

\* both sides hold the same keys, each as many times
SameKeys ==
  \A key \in WD_Keys(fr.map1) \cup WD_Keys(fr.map2) :
    Count(fr.map1, key) = Count(fr.map2, key)

\* no key is held twice by a side
KeysDistinct ==
  \A x, y \in 1..fr.i :
    x # y => fr.map1[x] # fr.map1[y] /\ fr.map2[x] # fr.map2[y]

\* the loop that builds edges has run to its end, or has failed
EdgesBuilt ==
  /\ prog = "words.py"
  /\ fr.lvl \in {"cycles", "end"} \/ (fr.lvl = "edges" /\ pc = "aborted")

\* edges is a bijection on the mismatched indices
EdgesBijection ==
  /\ pc = "aborted" => err.at \notin {"words.py:82", "words.py:96"}
  /\ DOMAIN fr.edges = Indices(fr.badIds)
  /\ \A x, y \in DOMAIN fr.edges : fr.edges[x] = fr.edges[y] => x = y
  /\ \A x \in DOMAIN fr.edges : fr.edges[x] \in Indices(fr.badIds)

\* C20 as stated: when both sides hold the same keys, repeated or not, in a
\* different order, the edges that words.py builds are a bijection on the
\* mismatched indices: every mismatched index has an edge, no two have the
\* same target, and every target is a mismatched index.
C20_EdgesBijectionOnMismatched ==
  (EdgesBuilt /\ SameKeys) => EdgesBijection

\* what holds of C20: when, besides, no side holds a key twice, edges is
\* such a bijection and every cycle comes back to its start
C20_EdgesBijectionOfDistinctKeys ==
  (EdgesBuilt /\ SameKeys /\ KeysDistinct)
    => /\ EdgesBijection
       /\ pc # "aborted"
       /\ Len(fr.cycle) <= fr.n

(* ------------------------------------------------------------------ *)
(* The parse functions of line and word headers, each on one header   *)
(* ------------------------------------------------------------------ *)
\* blocks.py reLine.search(line), whose grammar is
\* 'line <idx>: base=<base> {llx urx lly ury} fontSize=<fs> "<text>"'
BK_reLine(l) ==
  IF l.k = "bline"
  THEN <<l.idx, l.base, l.llx, l.urx, l.lly, l.ury, l.fontsize, l.text>>
  ELSE None

\* blocks.py parseLine reads groups 1..6 of the eight reLine captures
BK_parseLine(m, l) ==
  [llx |-> FloatOfInt(m[1]), urx |-> m[2], lly |-> m[3], ury |-> m[4],
   base |-> m[5], text |-> Numeral(m[6]), line |-> l]

ParseProgs ==
  {"blocklist.parseLine", "block_lines.parseLine", "blocks.parseLine",
   "block_pools.parseWord"}

\* the kind of header that the parse function of a program is given
HdrKind(p) ==
  IF p = "blocks.parseLine" THEN "bline"
  ELSE IF p = "block_pools.parseWord" THEN "word" ELSE "line"

\* the parse function of program p on the header l, which matches its regex
Parse(p, l) ==
  IF p = "blocklist.parseLine" THEN BL_parseLine(reLine(l))
  ELSE IF p = "block_lines.parseLine" THEN LN_parseLine(reLine(l), l)
  ELSE IF p = "blocks.parseLine" THEN BK_parseLine(BK_reLine(l), l)
  ELSE BP_parseWord(reWord(l))

\* a parse function is about to be called on a well-formed header
InitParse ==
  /\ prog \in ParseProgs
  /\ wantedTitle = None
  /\ \E j \in 0..1 : \E l \in CmpHdrs(HdrKind(prog), j) : fr = [line |-> l]
  /\ pc = "call"
  /\ ret = None
  /\ err = NoErr

\* the call returns the parsed entry
PR_Parse ==
  /\ prog \in ParseProgs /\ pc = "call"
  /\ ret' = Parse(prog, fr.line)
  /\ pc' = "done"
  /\ UNCHANGED <<prog, wantedTitle, fr, err>>

NextParse == PR_Parse

SpecParse == InitParse /\ [][NextParse]_vars

\* the fields of a line or word that C21 is about
EntryFields == {"base", "llx", "urx", "lly", "ury", "fontsize", "text"}

\* the entry returned holds under the name fld what the header holds
KeepsField(fld) == fld \in DOMAIN ret /\ ret[fld] = fr.line[fld]

\* C21 as stated: the entry that a parse function returns for a well-formed
\* header holds, under each of base, llx, urx, lly, ury, fontsize and text,
\* the value that the header holds under that name.
C21_ParsedFieldsAreHeaderFields ==
  (prog \in ParseProgs /\ pc = "done") => \A fld \in EntryFields : KeepsField(fld)

\* what holds of C21: blocklist.parseLine and block_pools.parseWord return
\* every field as written. block_lines.parseLine returns each field of the
\* header under the name of the next one (the index as base, base as llx,
\* ..., ury as fontsize, the font size as text), and blocks.parseLine
\* likewise one place further (the index as llx, base as urx, llx as lly,
\* urx as ury, lly as base, ury as text) and no font size.
C21_ParsedFieldsAsTheCodeReads ==
  (prog \in ParseProgs /\ pc = "done")
    => LET l == fr.line IN
       IF prog \in {"blocklist.parseLine", "block_pools.parseWord"}
       THEN \A fld \in EntryFields : KeepsField(fld)
       ELSE IF prog = "block_lines.parseLine"
       THEN /\ ret.base = 100 * l.idx /\ ret.llx = l.base /\ ret.urx = l.llx
            /\ ret.lly = l.urx /\ ret.ury = l.lly /\ ret.fontsize = l.ury
            /\ ret.text = Numeral(l.fontsize)
       ELSE /\ ret.llx = 100 * l.idx /\ ret.urx = l.base /\ ret.lly = l.llx
            /\ ret.ury = l.urx /\ ret.base = l.lly
            /\ ret.text = Numeral(l.ury)
            /\ "fontsize" \notin DOMAIN ret

(* ------------------------------------------------------------------ *)
(* The parse functions on headers that hold '-' for a number          *)
(* ------------------------------------------------------------------ *)
SentinelProgs ==
  {"block_pools.parseBlock", "block_pools.parsePool", "block_pools.parseWord",
   "block_lines.parseBlock", "block_lines.parsePool"}

\* the fields of a header record that hold a number
NumbersOf(l) ==
  IF l.k = "blkp"
  THEN {"idx", "rot", "llx", "urx", "lly", "ury", "nLines", "nPools",
        "minBaseIdx", "maxBaseIdx"}
  ELSE IF l.k = "pool" THEN {"idx", "baseIdx", "len"}
  ELSE {"idx", "base", "llx", "urx", "lly", "ury", "fontsize"}

\* a header and the headers that hold '-' in place of one of its numbers
WithHyphen(l) == {l} \cup {[l EXCEPT ![fld] = Hyphen] : fld \in NumbersOf(l)}

\* 'block 0: rot=0 {..} col=0 nCols=0 lines=<nl> pools=<np> minBaseIdx=<x>
\* maxBaseIdx=24', pool and word headers, and their variations
SentinelLines(p) ==
  IF p \in {"block_pools.parseBlock", "block_lines.parseBlock"}
  THEN UNION {WithHyphen([minBaseIdx |-> x, maxBaseIdx |-> 24]
                           @@ BlkPLine(0, nl, 1)) :
                x \in {0, 3}, nl \in 0..1}
  ELSE IF p \in {"block_pools.parsePool", "block_lines.parsePool"}
  THEN UNION {WithHyphen([PoolLine(x, n) EXCEPT !.baseIdx = b]) :
                x \in 0..1, n \in 1..2, b \in {-1, 0, 24}}
  ELSE UNION {WithHyphen(WordLine(x)) : x \in 0..1}

\* block_lines.py parsePool, which scan does not call
LN_parsePool(m, l) ==
  [idx |-> m[1], baseIdx |-> m[2], nWords |-> m[3], line |-> l]

\* float() of the groups gs of a match m: ValueError at the first that
\* holds '-'; at[g] is the source line that converts group g
RECURSIVE FloatGroups(_, _, _)
FloatGroups(m, gs, at) ==
  IF gs = <<>> THEN Pass
  ELSE IF m[Head(gs)] = Hyphen
  THEN Stop(at[Head(gs)], <<"ValueError", "-">>)
  ELSE FloatGroups(m, Tail(gs), at)

\* the call of a parse function on the header l: the error it raises, or
\* Pass and the value it returns
SN_Call(p, l) ==
  IF p \in {"block_pools.parseBlock", "block_lines.parseBlock"}
  THEN LET m == reBlockP(l)
           bp == p = "block_pools.parseBlock"
       IN IF m = None
          THEN [err |-> Stop(IF bp THEN "block_pools.py:51"
                             ELSE "block_lines.py:40", <<l>>),
                val |-> None]
          ELSE LET e == FloatGroups(m, <<3, 4, 5, 6>>,
                          IF bp
                          THEN <<"", "", "block_pools.py:54", "block_pools.py:55",
                                 "block_pools.py:56", "block_pools.py:57">>
                          ELSE <<"", "", "block_lines.py:43", "block_lines.py:44",
                                 "block_lines.py:45", "block_lines.py:46">>)
               IN [err |-> e,
                   val |-> IF e # Pass THEN None
                           ELSE IF bp THEN BP_parseBlock(1, m, l)
                           ELSE LN_parseBlock(m)]
  ELSE IF p \in {"block_pools.parsePool", "block_lines.parsePool"}
  THEN LET m == rePool(l) IN
       IF m = None
       THEN [err |-> Stop(IF p = "block_pools.parsePool"
                          THEN "block_pools.py:65" ELSE "block_lines.py:54",
                          <<l>>),
             val |-> None]
       ELSE [err |-> Pass,
             val |-> IF p = "block_pools.parsePool" THEN BP_parsePool(1, m, l)
                     ELSE LN_parsePool(m, l)]
  ELSE LET m == reWord(l) IN
       IF m = None
       THEN [err |-> Stop("block_pools.py:87", <<l>>), val |-> None]
       ELSE LET e == FloatGroups(m, <<2, 3, 4, 5, 6, 7>>,
                       <<"", "block_pools.py:90", "block_pools.py:91",
                         "block_pools.py:92", "block_pools.py:93",
                         "block_pools.py:94", "block_pools.py:95">>)
            IN [err |-> e,
                val |-> IF e # Pass THEN None ELSE BP_parseWord(m)]

\* a parse function is about to be called on a header
InitSentinel ==
  /\ prog \in SentinelProgs
  /\ wantedTitle = None
  /\ \E l \in SentinelLines(prog) : fr = [line |-> l]
  /\ pc = "call"
  /\ ret = None
  /\ err = NoErr

\* the call returns, or raises
SN_Parse ==
  /\ prog \in SentinelProgs /\ pc = "call"
  /\ LET o == SN_Call(prog, fr.line) IN
       /\ ret' = o.val
       /\ err' = o.err
       /\ pc' = IF o.err = Pass THEN "done" ELSE "aborted"
  /\ UNCHANGED <<prog, wantedTitle, fr>>

NextSentinel == SN_Parse

SpecSentinel == InitSentinel /\ [][NextSentinel]_vars

\* the numbers of the header parsed that are written '-'
Hyphens == {fld \in NumbersOf(fr.line) : fr.line[fld] = Hyphen}

\* the name that the value returned has for a field of the header
EntryName(fld) == IF fld = "len" THEN "nWords" ELSE fld

\* the call on the header is over
Called == prog \in SentinelProgs /\ pc # "call"

\* C22 as stated: a header with '-' for a number is parsed without error,
\* and the entry returned holds the field as the mark of an absent value,
\* which no number is: it is not 0, and the parse does not abort.
C22_HyphenParsesToAbsent ==
  Called
    => \A fld \in Hyphens :
         /\ pc = "done"
         /\ EntryName(fld) \in DOMAIN ret
         /\ ret[EntryName(fld)] = Hyphen

\* what holds of C22: '-' after minBaseIdx= or maxBaseIdx= is not read and
\* the entry has no such field; '-' for an index or a count fails the
\* assertion on the match, and '-' for a coordinate or a base raises
\* ValueError in float(). No '-' is ever returned as a number, 0 or other.
C22_HyphenIgnoredOrFatal ==
  Called
    => /\ pc = "done"
            <=> Hyphens \subseteq {"minBaseIdx", "maxBaseIdx"}
       /\ pc = "done"
            => /\ "minBaseIdx" \notin DOMAIN ret
               /\ \A fld \in NumbersOf(fr.line) \ Hyphens :
                    EntryName(fld) \in DOMAIN ret
                      => ret[EntryName(fld)] = fr.line[fld]
       /\ pc = "aborted"
            => \E fld \in Hyphens :
                 IF fld \in {"llx", "urx", "lly", "ury", "base", "fontsize"}
                 THEN err.msg = <<"ValueError", "-">>
                 ELSE err.msg = <<fr.line>>

(* ------------------------------------------------------------------ *)
(* The two scans of a run: 'x1 = scan(argv[1])', 'x2 = scan(argv[2])' *)
(* ------------------------------------------------------------------ *)
ScanProgs == {"blocklist", "block_lines", "block_pools", "pools"}

\* the lines that the scan of a program is fed
LinesOf(p) ==
  IF p = "blocklist" THEN BL_Lines
  ELSE IF p = "block_lines" THEN LN_Lines
  ELSE IF p = "block_pools" THEN BP_Lines
  ELSE PL_Lines

\* one iteration of the loop of the scan of program p
StepOf(p, f, wanted, l) ==
  IF p = "blocklist" THEN BL_Step(f, wanted, l)
  ELSE IF p = "block_lines" THEN LN_Step(f, l)
  ELSE IF p = "block_pools" THEN BP_Step(f, l)
  ELSE PL_Step(f, l)

\* the code after the loop of the scan of program p
FinishOf(p, f) ==
  IF p = "blocklist" THEN BL_Finish(f)
  ELSE IF p = "pools" THEN PL_Finish(f)
  ELSE Ok(f)

\* the value that the scan of program p returns
ValueOf(p, f) ==
  IF p = "blocklist" THEN f.blocksList
  ELSE IF p = "pools" THEN f.instances
  ELSE f.blocks

\* the locals with which a call of scan starts as if a list of the call
\* before were still there
Prologue_KeepsLines(p, f) ==
  IF p = "pools" THEN [Frame(p) EXCEPT !.words = f.words]
  ELSE IF p = "block_pools" THEN [Frame(p) EXCEPT !.pools = f.pools]
  ELSE [Frame(p) EXCEPT !.lines = f.lines]

\* the locals with which a call of scan starts when the call before has
\* ended with the locals f: every call binds its locals anew by the
\* assignments at the head of the function, scan reads no module variable
\* but the compiled patterns and the parse functions, and assigns to none
Prologue(p, f) == Frame(p)

\* the value that the first call has returned is bound to a module variable
\* that scan does not read; the second call starts. Its locals are held next
\* to those of the same call made first in a run
TS_Call ==
  /\ prog \in ScanProgs /\ pc = "returned"
  /\ fr' = [run |-> Prologue(prog, fr), alone |-> Frame(prog)]
  /\ pc' = "scan2"
  /\ ret' = None
  /\ UNCHANGED <<prog, wantedTitle, err>>

\* the locals and the error of the two calls when each has made one more
\* iteration, on the same line; a call that has raised makes no more
TS_Both(run, alone) ==
  /\ fr' = [run |-> run.fr, alone |-> alone.fr]
  /\ err' = [run |-> run.err, alone |-> alone.err]
  /\ UNCHANGED <<prog, wantedTitle>>

TS_ReadLine ==
  /\ prog \in ScanProgs /\ pc = "scan2"
  /\ (IF prog = "pools" THEN fr.alone.i + 1 ELSE fr.alone.i) < MaxLines
  /\ prog = "pools" => ~fr.alone.done /\ ~fr.run.done
  /\ \E l \in LinesOf(prog) :
       LET run == StepOf(prog, fr.run, wantedTitle, l)
           alone == StepOf(prog, fr.alone, wantedTitle, l)
       IN /\ TS_Both(run, alone)
          /\ pc' = IF run.err = NoErr /\ alone.err = NoErr THEN "scan2"
                   ELSE "aborted2"
          /\ UNCHANGED ret

\* the file of the second call ends, or its loop breaks on 'done'
TS_EndOfFile ==
  /\ prog \in ScanProgs /\ pc = "scan2"
  /\ LET run == FinishOf(prog, fr.run)
         alone == FinishOf(prog, fr.alone)
     IN /\ TS_Both(run, alone)
        /\ pc' = IF run.err = NoErr /\ alone.err = NoErr THEN "returned2"
                 ELSE "aborted2"
        /\ ret' = [run |-> IF run.err = NoErr
                           THEN ValueOf(prog, run.fr) ELSE None,
                   alone |-> IF alone.err = NoErr
                             THEN ValueOf(prog, alone.fr) ELSE None]

NextTwoScans == NextScan \/ TS_Call \/ TS_ReadLine \/ TS_EndOfFile

SpecTwoScans == InitScan /\ [][NextTwoScans]_vars

MaxText == 5

QuotedProgs == {"blocklist.reLine", "pools.reWord", "words.reGo",
                "words.reCpp"}

\* the delimiter of the text in the pattern of p: a double quote, or the
\* backquote of reCpp, written "backquote" here
QuoteOf(p) == IF p = "words.reCpp" THEN "backquote" ELSE "\""

TextChars(p) == {"a", " ", QuoteOf(p)}

SeqsUpTo(S, n) == UNION {[1..k -> S] : k \in 0..n}

\* the positions of s that hold c
Positions(s, c) == {k \in 1..Len(s) : s[k] = c}

Greatest(S) == CHOOSE x \in S : \A y \in S : y <= x

Least(S) == CHOOSE x \in S : \A y \in S : x <= y

\* str.strip() on spaces
Strip(s) ==
  LET ink == {k \in 1..Len(s) : s[k] # " "}
  IN IF ink = {} THEN <<>> ELSE SubSeq(s, Least(ink), Greatest(ink))

\* the lines: what precedes the header, what follows it and, in words.py,
\* what follows 'base='
QuotedLines(p) ==
  {[pre |-> pre, mid |-> mid, post |-> post] :
     pre \in SeqsUpTo(TextChars(p), 1),
     mid \in SeqsUpTo(TextChars(p), MaxText),
     post \in IF p \in {"words.reGo", "words.reCpp"}
              THEN SeqsUpTo(TextChars(p), 1) ELSE {<<>>}}

\* the characters of the line as the pattern is searched in it: blocklist.scan
\* strips the line (blocklist.py:65), pools.scan and words.scan only drop the
\* newline
LineChars(p, l) ==
  LET whole == l.pre \o <<"H">> \o l.mid \o
               (IF p \in {"words.reGo", "words.reCpp"}
                THEN <<"B">> \o l.post ELSE <<>>)
  IN IF p = "blocklist.reLine" THEN Strip(whole) ELSE whole

\* the closing quote of a match whose opening quote is at open: '(.*)"' and
\* '(.+)"' are greedy, so it is the last quote that lets the rest of the
\* pattern match. In words.py the rest is '\s+base=', so only spaces, and
\* at least one, lie between the closing quote and "B".
Closing_Lazy(p, s, open, quotes) == Least(quotes)

Closing(p, s, open, quotes) == Greatest(quotes)

\* the match of the pattern of p searched in the characters s: whether the
\* pattern matches, the number of characters after "H" that the font size
\* group '(\S+)' of reLine and reWord takes, and the text group.
\* The font size group is greedy: it takes as many of the characters that
\* follow the number, none of them a space, as still let '\s*"(.*)"' match.
Capture(p, s) ==
  LET q == QuoteOf(p)
      h == Least(Positions(s, "H"))
      words == p \in {"words.reGo", "words.reCpp"}
      stop == IF words THEN Least(Positions(s, "B")) ELSE Len(s) + 1
      \* the opening quotes after r characters taken by the font size
      \* group: '\s*' (reLine, reWord, reCpp) or '\s+' (reGo), then the quote
      OpensAfter(r) ==
        {k \in (h + r + 1)..(stop - 1) :
           /\ s[k] = q
           /\ \A x \in (h + r + 1)..(k - 1) : s[x] = " "
           /\ p = "words.reGo" => k > h + 1}
      \* the quotes that can close the text opened at open: in words.py
      \* '\s+base=' follows, and '(.+)' takes one character at least
      ClosesOf(open) ==
        {k \in (open + 1)..(stop - 1) :
           /\ s[k] = q
           /\ words => /\ k > open + 1
                       /\ k < stop - 1
                       /\ \A x \in (k + 1)..(stop - 1) : s[x] = " "}
      takes == {r \in 0..(stop - 1 - h) :
                  /\ words => r = 0
                  /\ \A x \in (h + 1)..(h + r) : s[x] # " "
                  /\ OpensAfter(r) # {}
                  /\ ClosesOf(Least(OpensAfter(r))) # {}}
      taken == Greatest(takes)
      open == Least(OpensAfter(taken))
  IN IF takes = {} THEN [matched |-> FALSE, taken |-> 0, text |-> <<>>]
     ELSE [matched |-> TRUE, taken |-> taken,
           text |-> SubSeq(s, open + 1,
                           Closing(p, s, open, ClosesOf(open)) - 1)]

\* where the font size group of p is given to float()
FloatOfFontsize(p) ==
  IF p = "blocklist.reLine" THEN "blocklist.py:44" ELSE "pools.py:95"

InitQuoted ==
  /\ prog \in QuotedProgs
  /\ wantedTitle = None
  /\ fr \in {[line |-> l] : l \in QuotedLines(prog)}
  /\ pc = "call"
  /\ ret = None
  /\ err = NoErr

\* m = regex.search(line) and the reading of the groups: float() of a font
\* size group that has taken characters after the number raises ValueError
\* (blocklist.py:44, pools.py:95); else text is m.group(8) of reLine and
\* reWord, m.group(2) of reGo and reCpp. A line that does not match leaves
\* no text.
QT_Search ==
  /\ prog \in QuotedProgs /\ pc = "call"
  /\ LET m == Capture(prog, LineChars(prog, fr.line)) IN
       IF ~m.matched
       THEN ret' = None /\ err' = NoErr /\ pc' = "done"
       ELSE IF m.taken > 0
       THEN /\ ret' = None
            /\ err' = [at |-> FloatOfFontsize(prog), msg |-> <<"ValueError">>]
            /\ pc' = "aborted"
       ELSE ret' = m.text /\ err' = NoErr /\ pc' = "done"
  /\ UNCHANGED <<prog, wantedTitle, fr>>

NextQuoted == QT_Search

SpecQuoted == InitQuoted /\ [][NextQuoted]_vars

\* the characters of s strictly between positions a and b
Between(s, a, b) == SubSeq(s, a + 1, b - 1)

\* the pattern has been searched in the line and has matched
Matched == prog \in QuotedProgs /\ pc = "done" /\ ret # None

QuotesOnLine == Positions(LineChars(prog, fr.line), QuoteOf(prog))

\* C24: the text taken from a line that matches is the characters between
\* the first and the last quote (or backtick) of the line.
C24_TextBetweenFirstAndLastQuote ==
  Matched => ret = Between(LineChars(prog, fr.line),
                           Least(QuotesOnLine), Greatest(QuotesOnLine))

\* the quotes of the line after the header part and, in words.py, before
\* 'base='
QuotesOfText ==
  LET s == LineChars(prog, fr.line)
      h == Least(Positions(s, "H"))
      stop == IF prog \in {"words.reGo", "words.reCpp"}
              THEN Least(Positions(s, "B")) ELSE Len(s) + 1
  IN {k \in QuotesOnLine : h < k /\ k < stop}

\* C24, as the patterns are: the text is the characters between the first
\* quote after the header part and the last quote of the line (in words.py
\* the last quote before 'base='), spaces and inner quotes included; quotes
\* before the header part or after 'base=' are not delimiters.
C24_TextBetweenQuotesOfTheTextField ==
  Matched => ret = Between(LineChars(prog, fr.line),
                           Least(QuotesOfText), Greatest(QuotesOfText))

\* a line of pools.py that begins with a quote, as lineWord (pools.py:24)
\* does, and whose text is a space and a quote has matched
C24_Witness ==
  /\ Matched /\ prog = "pools.reWord"
  /\ fr.line.pre = <<"\"">>
  /\ ret = <<" ", "\"">>

\* every mismatched index holds, on the left, a key that the right side
\* holds too
LeftKeysOnRight ==
  \A x \in Indices(fr.badIds) : fr.map1[x + 1] \in WD_Keys(fr.map2)

\* the loop that follows the edges has been entered, or is over
CyclesBegun == prog = "words.py" /\ fr.lvl \in {"cycles", "end"}

\* the loop that follows the edges has looked up an index that has no edge
MissingEdge == pc = "aborted" /\ err.at = "words.py:96"

\* the cycle in hand holds more indices than there are words: the walk
\* has come to an index twice without coming to its start, and, each step
\* being a function of the index, it never will
NeverBack == Len(fr.cycle) > fr.n

\* C25: when each mismatched left key occurs on the right side too, the
\* loop that follows the edges from each mismatched index comes back to
\* that index after finitely many steps and never looks up an index that
\* has no edge.
C25_CycleLoopComesBack ==
  (CyclesBegun /\ LeftKeysOnRight) => ~MissingEdge /\ ~NeverBack

\* what holds of C25: it is so when, besides, no side holds a key twice
C25_CycleLoopComesBackOfDistinctKeys ==
  (CyclesBegun /\ LeftKeysOnRight /\ KeysDistinct)
    => ~MissingEdge /\ ~NeverBack

(* ------------------------------------------------------------------ *)
(* block_pools.scan and block_lines.scan: the counters                *)
(* ------------------------------------------------------------------ *)
\* a scan of block_pools.py or block_lines.py no header of which has
\* declared a negative count: a negative lines= or pools= fails the
\* assertion that closes the iteration of its header, and the count stays
\* in the frame
CountsDeclaredNonNegative ==
  /\ prog \in {"block_pools", "block_lines"}
  /\ pc \in {"scan", "aborted", "returned"}
  /\ prog = "block_pools" => fr.nPools >= 0 /\ fr.nWords >= 0
  /\ prog = "block_lines" => fr.nLines >= 0

\* the children in hand are no more than the open header declares
CountersInRange ==
  /\ prog = "block_pools" => /\ Len(fr.words) <= fr.nWords
                             /\ Len(fr.pools) <= fr.nPools
  /\ prog = "block_lines" => Len(fr.lines) <= fr.nLines

\* the assertions on the counters that close an iteration
CountAssertions ==
  {"block_pools.py:157", "block_pools.py:158", "block_lines.py:132"}

\* the assertions that the line matches the pattern of the header expected
\* in the state
GrammarAssertions ==
  {"block_pools.py:51", "block_pools.py:65", "block_pools.py:87",
   "block_lines.py:40", "block_lines.py:63"}

LinesStep == LeafStep /\ prog = "block_lines.cmp"

\* the headers of the two lines compared differ in the field fld
HeadersDiffer(fld) == fr'.node1.line[fld] # fr'.node2.line[fld]

\* C27: the comparison of block_lines.py fails when two aligned lines
\* differ in their own base, left coordinate, right coordinate, font size
\* or text.
C27_LineDifferencesFail ==
  [][(LinesStep /\ \E fld \in {"base", "llx", "urx", "fontsize", "text"} :
                     HeadersDiffer(fld))
       => err' # Pass]_vars

\* what block_lines.py does: it fails exactly when the two lines differ in
\* index, left coordinate or font size, or their left coordinate is nan;
\* a difference in base, right coordinate or text alone passes.
C27_LineDifferencesTheCodeDetects ==
  [][LinesStep
       => (err' # Pass
             <=> \/ HeadersDiffer("idx")
                 \/ HeadersDiffer("llx")
                 \/ HeadersDiffer("fontsize")
                 \/ fr'.node1.line.llx = NaN)]_vars

(* ------------------------------------------------------------------ *)
(* blocklist.py and pools.py: the sides of a box that are compared    *)
(* ------------------------------------------------------------------ *)
\* the step compares two aligned nodes that have a bounding box: blocks or
\* lines of blocklist.py, words of pools.py
BoxStep ==
  /\ pc = "cmp"
  /\ \/ prog = "blocklist.cmp" /\ fr.lvl \in {"block", "leaf"}
     \/ prog = "pools.cmp" /\ fr.lvl = "leaf"

\* the header of a node just compared
BoxHeader(node) ==
  IF prog = "blocklist.cmp" /\ fr.lvl = "block" THEN node.blk.line
  ELSE node.line

\* the two nodes just compared agree in everything but the bottom or the
\* top of their box, which are the tolerance apart at least; none of their
\* other numbers is nan
OnlyBottomOrTopDiffer ==
  LET x == BoxHeader(fr'.node1)
      y == BoxHeader(fr'.node2)
  IN /\ [x EXCEPT !.lly = 0, !.ury = 0] = [y EXCEPT !.lly = 0, !.ury = 0]
     /\ fr.lvl = "block" => fr'.node1.kids = fr'.node2.kids
     /\ Abs(x.lly - y.lly) >= TOL \/ Abs(x.ury - y.ury) >= TOL
     /\ x.llx # NaN /\ x.urx # NaN
     /\ fr.lvl = "leaf" => x.base # NaN

BL_ReadStep == prog = "blocklist" /\ ReadStep /\ fr'.line.k # "blank"

\* it reads, where a group header is awaited, a group header of the wanted
\* title that declares 0 blocks
ReadsEmptyGroup ==
  /\ BL_ReadStep /\ fr.state = 0
  /\ fr'.line.k = "grp" /\ fr'.line.n = 0
  /\ wantedTitle = None \/ fr'.line.title = wantedTitle

\* it reads, where a block header is awaited, the header of the next block,
\* which declares lines=0
ReadsEmptyBlock ==
  /\ BL_ReadStep /\ fr.state = 1
  /\ fr'.line.k = "blk" /\ fr'.line.nLines = 0
  /\ fr'.line.idx = Len(fr.blocks) /\ fr'.line.idx < fr.nBlocks

\* C29: blocklist.scan seals a block that declares lines=0 with no children
\* and goes on to the next block or group header, and seals a group that
\* declares 0 blocks as an empty group of the returned list; neither aborts
\* the parse.
C29_ZeroCountsAccepted ==
  [][/\ ReadsEmptyBlock
          => /\ pc' = "scan"
             /\ fr'.state \in {0, 1}
             /\ fr'.state = 1
                  => fr'.blocks = Append(fr.blocks,
                                         [blk |-> fr'.blk, lines |-> <<>>])
             /\ fr'.state = 0 => Len(fr'.blocksList) = Len(fr.blocksList) + 1
     /\ ReadsEmptyGroup
          => /\ pc' = "scan"
             /\ fr'.state = 0
             /\ fr'.blocksList = Append(fr.blocksList,
                                        [title |-> fr'.line.title,
                                         titleLine |-> fr'.line,
                                         blocks |-> <<>>])]_vars

\* what blocklist.scan does: the header that declares no children opens a
\* node that nothing seals, and whatever line comes next aborts the parse
C29_ZeroCountsAsTheCodeReads ==
  [][/\ ReadsEmptyBlock
          => /\ pc' = "scan" /\ fr'.state = 2 /\ fr'.nLines = 0
             /\ fr'.blocks = fr.blocks /\ fr'.blocksList = fr.blocksList
     /\ ReadsEmptyGroup
          => /\ pc' = "scan" /\ fr'.state = 1 /\ fr'.nBlocks = 0
             /\ fr'.blocksList = fr.blocksList
     /\ (/\ BL_ReadStep
         /\ \/ fr.state = 1 /\ fr.nBlocks = 0
            \/ fr.state = 2 /\ fr.nLines = 0)
          => pc' = "aborted"]_vars

(* ------------------------------------------------------------------ *)
(* pools.scan: the pools appended to a rotation                       *)
(* ------------------------------------------------------------------ *)
\* pools.scan reads a line and appends a pool to bases
PoolAppended ==
  prog = "pools" /\ ReadStep /\ Len(fr'.bases) > Len(fr.bases)

\* the pool that the words in hand make up
PoolInHand ==
  [baseIdx |-> fr.baseIdx, words |-> fr.words, numWords |-> fr.numWords]

\* C30: a pool appended to the bases of a rotation is made of the words
\* read after its own '!!2 baseIdx' header inside that rotation, and is
\* appended once: the line that appends it is the one that ends its list of
\* words (state 3), never a line read while a pool header is awaited
\* (state 2), when the words in hand are those of a pool already appended.
C30_PoolAppendedOnceInItsRotation ==
  [][PoolAppended
       => /\ fr.state = 3
          /\ fr'.bases = Append(fr.bases, PoolInHand)]_vars

\* what pools.scan does: besides, the line that follows a '!!1 rot' header
\* appends to the new rotation the last pool of the rotation before, whose
\* words are still in hand
C30_LastPoolCarriedToNextRotation ==
  [][PoolAppended
       => \/ /\ fr.state = 3
             /\ fr'.bases = Append(fr.bases, PoolInHand)
          \/ /\ fr.state = 2 /\ fr.bases = <<>> /\ fr.rots # <<>>
             /\ fr'.bases = <<PoolInHand>>
             /\ LET before == fr.rots[Len(fr.rots)].bases
                IN before[Len(before)] = PoolInHand]_vars

(* ------------------------------------------------------------------ *)
(* base2.py: the scan of its two logs and the rows of its report      *)
(* ------------------------------------------------------------------ *)
\* longest log (in lines) that base2.py is fed
MaxLogLines == 2

\* the value of a decimal digit
DigitVal(c) == CHOOSE d \in 0..9 : Digits(d) = <<c>>

\* int() of a text of digits
RECURSIVE NatOf(_)
NatOf(s) ==
  IF s = <<>> THEN 0
  ELSE 10 * NatOf(SubSeq(s, 1, Len(s) - 1)) + DigitVal(s[Len(s)])

DigitChars == {"0", "1", "2", "3", "4", "5", "6", "7", "8", "9"}

\* the place of the point of a decimal text, one past its end when it has
\* none
PointOf(t) ==
  IF \E k \in DOMAIN t : t[k] = "."
  THEN CHOOSE k \in DOMAIN t : t[k] = "." ELSE Len(t) + 1

\* float() takes the text: 'nan', or digits with at most one point among
\* them. Any other text of the logs modelled raises ValueError.
B2_isFloat(t) ==
  \/ t = <<"n", "a", "n">>
  \/ /\ \E k \in DOMAIN t : t[k] \in DigitChars
     /\ \A k \in DOMAIN t : t[k] \in DigitChars \/ k = PointOf(t)

\* float() of such a text, in hundredths: the digits before the point, the
\* first two after it, and nothing for the zeros that follow them (no text
\* of the model holds another digit there)
B2_float(t) ==
  IF t = <<"n", "a", "n">> THEN NaN
  ELSE LET p == PointOf(t)
           dec == SubSeq(t, p + 1, Len(t)) \o <<"0", "0">>
       IN 100 * NatOf(SubSeq(t, 1, p - 1)) + NatOf(SubSeq(dec, 1, 2))

\* a line '###1 Adding words to block cnt=.. dnt=.. minBase=.. maxBase=..'
\* with the texts of its four fields
Adding(cnt, dnt, minBase, maxBase) ==
  [k |-> "adding", cnt |-> cnt, dnt |-> dnt, minBase |-> minBase,
   maxBase |-> maxBase]

\* a line of the log that is not one of these
OtherLine ==
  [k |-> "other", cnt |-> <<>>, dnt |-> <<>>, minBase |-> <<>>,
   maxBase |-> <<>>]

\* the lines of the first log: an entry, an entry whose minBase is nan, and
\* a line that is no entry
B2_Lines1 ==
  {Adding(<<"1">>, <<"2">>, Numeral(1814), Numeral(1824)),
   Adding(<<"1">>, <<"2">>, Numeral(NaN), Numeral(1824)),
   OtherLine}

\* the lines of the second log: those of the first, the first entry with one
\* field written otherwise (maxBase, minBase, cnt, dnt, minBase with one
\* more zero), and the first entry with a maxBase or a minBase that is no
\* number
B2_Lines2 ==
  B2_Lines1 \cup
  {Adding(<<"1">>, <<"2">>, Numeral(1814), Numeral(1834)),
   Adding(<<"1">>, <<"2">>, Numeral(1824), Numeral(1824)),
   Adding(<<"2">>, <<"2">>, Numeral(1814), Numeral(1824)),
   Adding(<<"1">>, <<"3">>, Numeral(1814), Numeral(1824)),
   Adding(<<"1">>, <<"2">>, Numeral(1814) \o <<"0">>, Numeral(1824)),
   Adding(<<"1">>, <<"2">>, Numeral(1814), <<"x">>),
   Adding(<<"1">>, <<"2">>, <<"x">>, Numeral(1824))}

\* regex.search(line): the four groups cnt, dnt, minBase, maxBase, or
\* nothing
B2_regex(l) ==
  IF l.k = "adding" THEN <<l.cnt, l.dnt, l.minBase, l.maxBase>> ELSE <<>>

\* the lines of the log f at which float(m.group(3)) raises ValueError
B2_Raises(f) ==
  {k \in DOMAIN f : B2_regex(f[k]) # <<>> /\ ~B2_isFloat(B2_regex(f[k])[3])}

\* the list matches of scan after the first n lines of the log f: minBase
\* and maxBase are both float(m.group(3)), and m.group(4) is not read
RECURSIVE B2_scan(_, _)
B2_scan(f, n) ==
  IF n = 0 THEN <<>>
  ELSE LET m == B2_regex(f[n])
           matches == B2_scan(f, n - 1)
       IN IF m = <<>> THEN matches
          ELSE Append(matches,
                      <<n, B2_float(m[3]), B2_float(m[3]), NatOf(m[1]),
                        NatOf(m[2]), f[n]>>)

\* locals of base2.py: rows holds, for every row printed, its index, its
\* marker and the two lines that are printed under a marked row
B2_Frame ==
  [lvl |-> "scan", matches1 |-> <<>>, matches2 |-> <<>>, n |-> 0, i |-> 0,
   badI |-> -1, rows |-> <<>>]

InitBase2 ==
  /\ prog = "base2.py"
  /\ wantedTitle = None
  /\ fr = B2_Frame
  /\ pc = "cmp"
  /\ ret = None
  /\ err = NoErr

\* the two scans, 'n = min(...)' and 'badI = -1'; a ValueError of either
\* scan ends the program before any row
B2_Main ==
  /\ prog = "base2.py" /\ pc = "cmp" /\ fr.lvl = "scan"
  /\ \E f1 \in SeqsUpTo(B2_Lines1, MaxLogLines),
        f2 \in SeqsUpTo(B2_Lines2, MaxLogLines) :
       IF B2_Raises(f1) # {} \/ B2_Raises(f2) # {}
       THEN /\ fr' = [fr EXCEPT !.lvl = "raised"]
            /\ pc' = "aborted"
            /\ err' = [at |-> "base2.py:22", msg |-> <<"ValueError">>]
       ELSE LET matches1 == B2_scan(f1, Len(f1))
                matches2 == B2_scan(f2, Len(f2))
                n == Min(Len(matches1), Len(matches2))
            IN /\ fr' = [fr EXCEPT !.matches1 = matches1,
                                   !.matches2 = matches2, !.n = n,
                                   !.lvl = IF n > 0 THEN "rows" ELSE "end"]
               /\ pc' = IF n > 0 THEN "cmp" ELSE "done"
               /\ err' = err
  /\ UNCHANGED <<prog, wantedTitle, ret>>

\* one iteration of the loop on the aligned entries of index i
B2_Row ==
  /\ prog = "base2.py" /\ pc = "cmp" /\ fr.lvl = "rows"
  /\ LET e1 == fr.matches1[fr.i + 1]
         e2 == fr.matches2[fr.i + 1]
         bad == RP_Bad(prog, SubSeq(e1, 2, 5), SubSeq(e2, 2, 5))
         stop == fr.badI >= 0 /\ RP_Break(fr.i, fr.badI)
         last == stop \/ fr.i + 1 >= fr.n
     IN /\ fr' = [fr EXCEPT
                    !.rows = Append(@, <<fr.i, IF bad THEN "******" ELSE "",
                                         e1[6], e2[6]>>),
                    !.badI = IF fr.badI < 0 /\ bad THEN fr.i ELSE @,
                    !.i = IF stop THEN @ ELSE @ + 1,
                    !.lvl = IF last THEN "end" ELSE "rows"]
        /\ pc' = IF last THEN "done" ELSE "cmp"
  /\ UNCHANGED <<prog, wantedTitle, ret, err>>

NextBase2 == B2_Main \/ B2_Row

SpecBase2 == InitBase2 /\ [][NextBase2]_vars

\* the rows that base2.py has printed
B2_Rows ==
  IF prog = "base2.py" /\ fr.lvl \in {"rows", "end"} THEN fr.rows ELSE <<>>

\* the row is marked with '******'
Marked(row) == row[2] = "******"

\* the two lines of the row differ in the text of the field fld
Differ(row, fld) == row[3][fld] # row[4][fld]

\* C31 as stated: a row of base2.py is marked bad if and only if the two
\* lines of its entries differ in at least one of cnt, dnt, minBase and
\* maxBase as written; in particular a row whose lines differ in maxBase
\* only is marked.
C31_MarkedIffAFieldDiffers ==
  \A k \in DOMAIN B2_Rows :
    Marked(B2_Rows[k])
      <=> \E fld \in {"cnt", "dnt", "minBase", "maxBase"} :
            Differ(B2_Rows[k], fld)

\* what holds of C31: a row is marked if and only if the two lines differ
\* in the number that cnt, dnt or minBase is read as, or a minBase is nan.
\* maxBase has no part in it.
C31_MarkedIffCntDntOrMinBaseDiffer ==
  \A k \in DOMAIN B2_Rows :
    LET l1 == B2_Rows[k][3]
        l2 == B2_Rows[k][4]
    IN Marked(B2_Rows[k])
         <=> \/ NatOf(l1.cnt) # NatOf(l2.cnt)
             \/ NatOf(l1.dnt) # NatOf(l2.dnt)
             \/ ~FloatEq(B2_float(l1.minBase), B2_float(l2.minBase))

\* a row whose lines differ in maxBase only has been printed without the
\* marker
C31_MaxBaseOnlyUnmarked ==
  \E k \in DOMAIN B2_Rows :
    /\ ~Marked(B2_Rows[k])
    /\ Differ(B2_Rows[k], "maxBase")
    /\ \A fld \in {"cnt", "dnt", "minBase"} : ~Differ(B2_Rows[k], fld)

====
